---- MODULE Spec2Model ----
(***************************************************************************)
(* Peak-Performance: gym membership administration.                        *)
(*                                                                         *)
(* State machine of the REST API's record store as the route handlers of   *)
(* backend/src/routes read and write it: members (members.ts), payments    *)
(* (routes/payments.ts) and workouts (workouts.ts), and the error          *)
(* responder (middleware/errorHandler.ts).                                 *)
(*                                                                         *)
(* Time is counted in days: `now` is the value of `new Date()`, expiry,    *)
(* due and paid dates are day numbers.                                     *)
(*                                                                         *)
(* An optional field of a request body is a set: {} when the field is      *)
(* absent, {v} when the body carries the value v.                          *)
(***************************************************************************)
EXTENDS Integers, Sequences, FiniteSets, TLC

\* ---------------------------------------------------------------- bounds
MaxTime == 1
MaxMembers == 2
MaxPayments == 1
MaxWorkouts == 1

\* 30 * 24 * 60 * 60 * 1000 ms, in days
ThirtyDays == 30

\* ------------------------------------------------------- value domains
Statuses == {"ACTIVE", "INACTIVE", "EXPIRING_SOON", "ARCHIVED"}
Names == {"Al"}
Ages == {25}
Genders == {"MALE"}
Phones == {"5550001111"}
MembershipTypes == {"ONE_MONTH"}
\* an email address is the sequence of its characters
RawEmails == { <<"A", "@", "x">>, <<"a", "@", "x">>, <<"b", "@", "x">> }
Times == 0..MaxTime
\* dates on both sides of `now` and of `now + 30 days`
Dates == {0, 1, ThirtyDays, ThirtyDays + 1, ThirtyDays + 2}

Opt(S) == {{}} \cup {{x} : x \in S}
Val(o) == CHOOSE x \in o : TRUE

VARIABLES now, members, payments, workouts, issued, last, race,
          checkIns, view, ui, auth

vars == <<now, members, payments, workouts, issued, last, race,
          checkIns, view, ui, auth>>

\* the check-in rows, the response of the last dashboard, list or auth
\* request, the state of the member page, and the user table with the
\* JWT_SECRET setting
aux == <<checkIns, view, ui, auth>>

\* no dashboard or list request has been answered yet
NoView == [kind |-> "none"]

\* ------------------------------------------------------- error classes
BadRequestError == 400
NotFoundError == 404
ConflictError == 409
OK == 200
Created == 201

\* ------------------------------------------------------------- members
MemberIds == 1..MaxMembers

Lower(c) == CASE c = "A" -> "a" [] c = "B" -> "b" [] c = "X" -> "x" [] OTHER -> c

\* body('email').isEmail().normalizeEmail(): the address in lower case
normalizeEmail(e) == [i \in DOMAIN e |-> Lower(e[i])]

\* prisma.member.findUnique({ where: { email } })
findByEmail(e) == {i \in DOMAIN members : members[i].email = e}

\* PostStatus with the first comparison strict
PostStatusStrict(expiryDate, t) ==
    IF expiryDate < t THEN "INACTIVE"
    ELSE IF expiryDate <= t + ThirtyDays THEN "EXPIRING_SOON"
    ELSE "ACTIVE"

\* POST /members: status from the expiry date
PostStatus(expiryDate, t) ==
    IF expiryDate <= t THEN "INACTIVE"
    ELSE IF expiryDate <= t + ThirtyDays THEN "EXPIRING_SOON"
    ELSE "ACTIVE"

\* PUT /members/:id: status from the expiry date
PutStatus(expiryDate, t) ==
    IF expiryDate <= t THEN "INACTIVE"
    ELSE IF expiryDate <= t + ThirtyDays THEN "EXPIRING_SOON"
    ELSE "ACTIVE"

Reply(op, id, code, body) ==
    [op |-> op, id |-> id, code |-> code,
     expiryDate |-> body.expiryDate # {}, status |-> body.status # {}]

NoBody == [expiryDate |-> {}, status |-> {}]

CreateBodies ==
    [name : Names, age : Ages, gender : Genders, email : RawEmails,
     phone : Phones, membershipType : MembershipTypes,
     expiryDate : {{d} : d \in Dates}, status : Opt(Statuses)]

\* the id the store gives to the next member row
NewMemberId == Cardinality(DOMAIN members) + 1

\* router.post('/'), on a body that passed validateMember
CreateMember(b) ==
    LET email == normalizeEmail(b.email)
        id == NewMemberId
    IN  /\ id \in MemberIds
        /\ IF findByEmail(email) # {}
           THEN /\ last' = Reply("POST", 0, ConflictError, b)
                /\ UNCHANGED members
           ELSE /\ members' = [i \in DOMAIN members \cup {id} |->
                     IF i = id
                     THEN [name |-> b.name, age |-> b.age, gender |-> b.gender,
                           email |-> email, phone |-> b.phone,
                           membershipType |-> b.membershipType,
                           expiryDate |-> Val(b.expiryDate),
                           status |-> PostStatus(Val(b.expiryDate), now)]
                     ELSE members[i]]
                /\ last' = Reply("POST", id, Created, b)
        /\ UNCHANGED <<now, payments, workouts, issued, race, aux>>

Present(b) == {f \in DOMAIN b : b[f] # {}}

\* the bodies that pass validateMemberUpdate; a request carries up to two of
\* the fields
UpdateBodies ==
    {b \in [name : Opt(Names), email : Opt(RawEmails),
            expiryDate : Opt(Dates), status : Opt(Statuses)] :
        Cardinality(Present(b)) <= 2}

Pick(o, old) == IF o = {} THEN old ELSE Val(o)

\* the status that router.put('/:id') hands to prisma.member.update
PutData(b, t) ==
    IF b.expiryDate # {}
    THEN [b EXCEPT !.status = {PutStatus(Val(b.expiryDate), t)}]
    ELSE b

\* EmailExists without the lookup
EmailExistsUnchecked(id, b) == FALSE

\* router.put('/:id'): the email of the body belongs to another member
EmailExists(id, b) ==
    /\ b.email # {}
    /\ Val(b.email) # members[id].email
    /\ findByEmail(Val(b.email)) # {}

\* router.put('/:id'), on a body that passed validateMemberUpdate
UpdateMember(id, b0) ==
    LET b == IF b0.email = {} THEN b0
             ELSE [b0 EXCEPT !.email = {normalizeEmail(Val(b0.email))}]
    IN  /\ IF id \notin DOMAIN members
           THEN /\ last' = Reply("PUT", id, NotFoundError, b)
                /\ UNCHANGED members
           ELSE IF EmailExists(id, b)
           THEN /\ last' = Reply("PUT", id, ConflictError, b)
                /\ UNCHANGED members
           ELSE LET data == PutData(b, now)
                    m == members[id]
                IN  /\ members' = [members EXCEPT ![id] =
                          [m EXCEPT !.name = Pick(data.name, m.name),
                                    !.email = Pick(data.email, m.email),
                                    !.expiryDate = Pick(data.expiryDate, m.expiryDate),
                                    !.status = Pick(data.status, m.status)]]
                    /\ last' = Reply("PUT", id, OK, b)
        /\ UNCHANGED <<now, payments, workouts, issued, race, aux>>

\* DeleteMember removing the row
DeleteMemberHard(id) ==
    /\ IF id \notin DOMAIN members
       THEN /\ last' = Reply("DELETE", id, NotFoundError, NoBody)
            /\ UNCHANGED members
       ELSE /\ members' = [i \in DOMAIN members \ {id} |-> members[i]]
            /\ last' = Reply("DELETE", id, OK, NoBody)
    /\ UNCHANGED <<now, payments, workouts, issued, race, aux>>

\* router.delete('/:id')
DeleteMember(id) ==
    /\ IF id \notin DOMAIN members
       THEN /\ last' = Reply("DELETE", id, NotFoundError, NoBody)
            /\ UNCHANGED members
       ELSE /\ members' = [members EXCEPT ![id] =
                 [members[id] EXCEPT !.status = "ARCHIVED"]]
            /\ last' = Reply("DELETE", id, OK, NoBody)
    /\ UNCHANGED <<now, payments, workouts, issued, race, aux>>

\* Tick with a job that derives every status again
TickReevaluate ==
    /\ now < MaxTime
    /\ now' = now + 1
    /\ members' = [i \in DOMAIN members |->
                     [members[i] EXCEPT !.status = PostStatus(members[i].expiryDate, now + 1)]]
    /\ last' = Reply("TICK", 0, 0, NoBody)
    /\ UNCHANGED <<payments, workouts, issued, race, aux>>

\* the clock advances between requests
Tick ==
    /\ now < MaxTime
    /\ now' = now + 1
    /\ last' = Reply("TICK", 0, 0, NoBody)
    /\ UNCHANGED <<members, payments, workouts, issued, race, aux>>

Init ==
    /\ now = 0
    /\ members = << >>
    /\ payments = << >>
    /\ workouts = << >>
    /\ issued = [payment |-> 0, workout |-> 0]
    /\ last = Reply("INIT", 0, 0, NoBody)
    /\ race = << >>
    /\ checkIns = << >> /\ view = NoView /\ ui = << >>
    /\ auth = [users |-> << >>, secret |-> TRUE]

Next ==
    \/ Tick
    \/ \E b \in CreateBodies : CreateMember(b)
    \/ \E id \in MemberIds, b \in UpdateBodies : UpdateMember(id, b)
    \/ \E id \in MemberIds : DeleteMember(id)

Spec == Init /\ [][Next]_vars

\* ------------------------------------------------------- error handler
\* an error: its name, its Prisma code, its statusCode field (absent on an
\* error that is no CustomError) and whether its message contains
\* 'Too many requests'
CustomError(statusCode) ==
    [name |-> "Error", code |-> "", statusCode |-> {statusCode}, tooMany |-> FALSE]

PrismaError(code) ==
    [name |-> "PrismaClientKnownRequestError", code |-> code,
     statusCode |-> {}, tooMany |-> FALSE]

\* PrismaStatus without the P2002 case
PrismaStatusDefault(code) ==
    CASE code = "P2025" -> 404
      [] code = "P2003" -> 400
      [] OTHER -> 400

\* errorHandler: switch (prismaError.code)
PrismaStatus(code) ==
    CASE code = "P2002" -> 409
      [] code = "P2025" -> 404
      [] code = "P2003" -> 400
      [] OTHER -> 400

\* errorHandler: the status of the response to an error
errorHandler(error) ==
    LET s0 == IF error.statusCode = {} THEN 500 ELSE Val(error.statusCode)
        s1 == IF error.name = "PrismaClientKnownRequestError"
              THEN PrismaStatus(error.code) ELSE s0
        s2 == IF error.name = "PrismaClientValidationError" THEN 400 ELSE s1
        s3 == IF error.name = "JsonWebTokenError" THEN 401 ELSE s2
        s4 == IF error.name = "TokenExpiredError" THEN 401 ELSE s3
        s5 == IF error.name = "ValidationError" THEN 400 ELSE s4
        s6 == IF error.name = "MulterError" THEN 400 ELSE s5
        s7 == IF error.tooMany THEN 429 ELSE s6
    IN  IF s7 < 100 \/ s7 >= 600 THEN 500 ELSE s7

\* ------------------------------------------------------------ payments
PaymentIds == 1..MaxPayments
PaymentStatuses == {"PENDING", "PAID", "OVERDUE", "CANCELLED"}
Amounts == {10, 20}
PaymentTypes == {"MEMBERSHIP"}
DueDates == {0, 1}
Notes == {"cash"}

PaymentBodies ==
    [memberId : MemberIds, amount : Amounts, paymentType : PaymentTypes,
     dueDate : {{d} : d \in DueDates}, notes : Opt(Notes),
     status : Opt({"PAID"})]

\* POST /payments: status from the due date
NewPaymentStatus(dueDate, t) == IF dueDate < t THEN "OVERDUE" ELSE "PENDING"

\* MemberMissing without the lookup
MemberMissingUnchecked(memberId) == FALSE

\* router.post('/'): prisma.member.findUnique({ where: { id: memberId } })
\* finds no member
MemberMissing(memberId) == memberId \notin DOMAIN members

\* the foreign key of a payment or workout row on members refuses the
\* memberId that an update writes
ForeignKeyViolation(memberId) ==
    memberId # {} /\ Val(memberId) \notin DOMAIN members

\* router.post('/'), on a body that passed validatePayment
CreatePayment(b) ==
    LET id == issued.payment + 1
    IN  /\ id \in PaymentIds
        /\ IF MemberMissing(b.memberId)
           THEN /\ last' = Reply("POST", 0, NotFoundError, NoBody)
                /\ UNCHANGED <<payments, issued>>
           ELSE /\ payments' = [i \in DOMAIN payments \cup {id} |->
                     IF i = id
                     THEN [memberId |-> b.memberId, amount |-> b.amount,
                           paymentType |-> b.paymentType,
                           dueDate |-> Val(b.dueDate),
                           status |-> NewPaymentStatus(Val(b.dueDate), now),
                           paidAt |-> {}, notes |-> b.notes]
                     ELSE payments[i]]
                /\ issued' = [issued EXCEPT !.payment = id]
                /\ last' = Reply("POST", id, Created, NoBody)
        /\ UNCHANGED <<now, members, workouts, race, aux>>

\* the bodies that pass validatePaymentUpdate; a request carries up to two
\* of the fields. The validators leave a memberId of the body as it is and
\* the handler hands the whole body to prisma.payment.update
PaymentUpdateBodies ==
    {b \in [amount : Opt(Amounts), paymentType : Opt(PaymentTypes),
            status : Opt(PaymentStatuses), dueDate : Opt(DueDates),
            notes : Opt(Notes), memberId : Opt(MemberIds)] :
        Cardinality(Present(b)) <= 2}

\* router.put('/:id'): the status written when the body carries a due date
DueStatus(b, t) ==
    IF b.dueDate # {} /\ Val(b.dueDate) < t /\ b.status # {"PAID"}
    THEN {"OVERDUE"}
    ELSE b.status

\* router.put('/:id'): the paidAt written
PutPaidAt(status, existing, t) ==
    IF status = {"PAID"} /\ existing.paidAt = {} THEN {t} ELSE {}

\* router.put('/:id'), on a body that passed validatePaymentUpdate
UpdatePayment(id, b) ==
    /\ IF id \notin DOMAIN payments
       THEN /\ last' = Reply("PUT", id, NotFoundError, NoBody)
            /\ UNCHANGED payments
       ELSE IF ForeignKeyViolation(b.memberId)
       THEN /\ last' = Reply("PUT", id, errorHandler(PrismaError("P2003")), NoBody)
            /\ UNCHANGED payments
       ELSE LET p == payments[id]
                status == DueStatus(b, now)
                paidAt == PutPaidAt(status, p, now)
            IN  /\ payments' = [payments EXCEPT ![id] =
                      [p EXCEPT !.amount = Pick(b.amount, p.amount),
                                !.memberId = Pick(b.memberId, p.memberId),
                                !.paymentType = Pick(b.paymentType, p.paymentType),
                                !.dueDate = Pick(b.dueDate, p.dueDate),
                                !.notes = IF b.notes = {} THEN p.notes ELSE b.notes,
                                !.status = Pick(status, p.status),
                                !.paidAt = IF paidAt = {} THEN p.paidAt ELSE paidAt]]
                /\ last' = Reply("PUT", id, OK, NoBody)
    /\ UNCHANGED <<now, members, workouts, issued, race, aux>>

\* router.delete('/:id')
DeletePayment(id) ==
    /\ IF id \notin DOMAIN payments
       THEN /\ last' = Reply("DELETE", id, NotFoundError, NoBody)
            /\ UNCHANGED payments
       ELSE IF payments[id].status # "PENDING"
       THEN /\ last' = Reply("DELETE", id, BadRequestError, NoBody)
            /\ UNCHANGED payments
       ELSE /\ payments' = [i \in DOMAIN payments \ {id} |-> payments[i]]
            /\ last' = Reply("DELETE", id, OK, NoBody)
    /\ UNCHANGED <<now, members, workouts, issued, race, aux>>

\* AlreadyPaid without the test
AlreadyPaidUnchecked(p) == FALSE

\* router.patch('/:id/mark-paid'): payment.status === 'PAID'
AlreadyPaid(p) == p.status = "PAID"

\* MarkPaidRow that also writes the amount of the body
MarkPaidRowAmount(p, amount, notes, t) ==
    [p EXCEPT !.status = "PAID",
              !.paidAt = {t},
              !.notes = IF notes # {} THEN notes ELSE p.notes,
              !.amount = Pick(amount, p.amount)]

\* router.patch('/:id/mark-paid'): the row after prisma.payment.update
MarkPaidRow(p, amount, notes, t) ==
    [p EXCEPT !.status = "PAID",
              !.paidAt = {t},
              !.notes = IF notes # {} THEN notes ELSE p.notes]

\* router.patch('/:id/mark-paid'); amount and notes are the fields the
\* handler reads from the body
MarkPaid(id, amount, notes) ==
    /\ IF id \notin DOMAIN payments
       THEN /\ last' = Reply("PATCH", id, NotFoundError, NoBody)
            /\ UNCHANGED payments
       ELSE IF AlreadyPaid(payments[id])
       THEN /\ last' = Reply("PATCH", id, BadRequestError, NoBody)
            /\ UNCHANGED payments
       ELSE /\ payments' = [payments EXCEPT ![id] =
                 MarkPaidRow(payments[id], amount, notes, now)]
            /\ last' = Reply("PATCH", id, OK, NoBody)
    /\ UNCHANGED <<now, members, workouts, issued, race, aux>>

\* ------------------------------------------------------------ workouts
WorkoutIds == 1..MaxWorkouts
WorkoutTypes == {"CARDIO", "STRENGTH"}
Durations == {30}

WorkoutBodies ==
    [memberId : MemberIds, workoutType : WorkoutTypes, duration : Durations,
     workoutAt : Opt({0})]

\* router.post('/'), on a body that passed validateWorkout
CreateWorkout(b) ==
    LET id == issued.workout + 1
    IN  /\ id \in WorkoutIds
        /\ IF MemberMissing(b.memberId)
           THEN /\ last' = Reply("POSTW", 0, NotFoundError, NoBody)
                /\ UNCHANGED <<workouts, issued>>
           ELSE /\ workouts' = [i \in DOMAIN workouts \cup {id} |->
                     IF i = id
                     THEN [memberId |-> b.memberId, workoutType |-> b.workoutType,
                           duration |-> b.duration,
                           workoutAt |-> Pick(b.workoutAt, now)]
                     ELSE workouts[i]]
                /\ issued' = [issued EXCEPT !.workout = id]
                /\ last' = Reply("POSTW", id, Created, NoBody)
        /\ UNCHANGED <<now, members, payments, race, aux>>

\* the bodies that pass validateWorkoutUpdate
WorkoutUpdateBodies ==
    [workoutType : Opt(WorkoutTypes), duration : Opt(Durations),
     workoutAt : Opt({0}), memberId : Opt(MemberIds)]

\* router.put('/:id'), on a body that passed validateWorkoutUpdate
UpdateWorkout(id, b) ==
    /\ IF id \notin DOMAIN workouts
       THEN /\ last' = Reply("PUTW", id, NotFoundError, NoBody)
            /\ UNCHANGED workouts
       ELSE IF ForeignKeyViolation(b.memberId)
       THEN /\ last' = Reply("PUTW", id, errorHandler(PrismaError("P2003")), NoBody)
            /\ UNCHANGED workouts
       ELSE LET w == workouts[id]
            IN  /\ workouts' = [workouts EXCEPT ![id] =
                      [w EXCEPT !.workoutType = Pick(b.workoutType, w.workoutType),
                                !.memberId = Pick(b.memberId, w.memberId),
                                !.duration = Pick(b.duration, w.duration),
                                !.workoutAt = Pick(b.workoutAt, w.workoutAt)]]
                /\ last' = Reply("PUTW", id, OK, NoBody)
    /\ UNCHANGED <<now, members, payments, issued, race, aux>>

\* router.delete('/:id')
DeleteWorkout(id) ==
    /\ IF id \notin DOMAIN workouts
       THEN /\ last' = Reply("DELETEW", id, NotFoundError, NoBody)
            /\ UNCHANGED workouts
       ELSE /\ workouts' = [i \in DOMAIN workouts \ {id} |-> workouts[i]]
            /\ last' = Reply("DELETEW", id, OK, NoBody)
    /\ UNCHANGED <<now, members, payments, issued, race, aux>>

\* a store that holds one member
InitPay ==
    /\ now = 0
    /\ members = <<[name |-> "Al", age |-> 25, gender |-> "MALE",
                    email |-> <<"a", "@", "x">>, phone |-> "5550001111",
                    membershipType |-> "ONE_MONTH", expiryDate |-> ThirtyDays + 1,
                    status |-> "ACTIVE"]>>
    /\ payments = << >>
    /\ workouts = << >>
    /\ issued = [payment |-> 0, workout |-> 0]
    /\ last = Reply("INIT", 0, 0, NoBody)
    /\ race = << >>
    /\ checkIns = << >> /\ view = NoView /\ ui = << >>
    /\ auth = [users |-> << >>, secret |-> TRUE]

\* the payment requests
NextPay ==
    \/ Tick
    \/ \E b \in PaymentBodies : CreatePayment(b)
    \/ \E id \in PaymentIds, b \in PaymentUpdateBodies : UpdatePayment(id, b)
    \/ \E id \in PaymentIds : DeletePayment(id)
    \/ \E id \in PaymentIds, amount \in Opt(Amounts), notes \in Opt(Notes) :
          MarkPaid(id, amount, notes)

SpecPay == InitPay /\ [][NextPay]_vars

\* the payment and the workout requests
NextRecords ==
    \/ Tick
    \/ \E b \in PaymentBodies : CreatePayment(b)
    \/ \E id \in PaymentIds, b \in PaymentUpdateBodies : UpdatePayment(id, b)
    \/ \E id \in PaymentIds : DeletePayment(id)
    \/ \E id \in PaymentIds, amount \in Opt(Amounts), notes \in Opt(Notes) :
          MarkPaid(id, amount, notes)
    \/ \E b \in WorkoutBodies : CreateWorkout(b)
    \/ \E id \in WorkoutIds, b \in WorkoutUpdateBodies : UpdateWorkout(id, b)
    \/ \E id \in WorkoutIds : DeleteWorkout(id)

SpecRecords == InitPay /\ [][NextRecords]_vars

\* the requests that create, reassign and remove the records of members,
\* and the delete request of a member; the store holds member 1 only
NextOwner ==
    \/ \E b \in PaymentBodies :
          b.amount = 10 /\ b.dueDate = {0} /\ b.notes = {} /\ b.status = {}
             /\ CreatePayment(b)
    \/ \E id \in PaymentIds, b \in PaymentUpdateBodies :
          Present(b) \subseteq {"memberId"} /\ UpdatePayment(id, b)
    \/ \E id \in PaymentIds : DeletePayment(id)
    \/ \E b \in WorkoutBodies :
          b.workoutType = "CARDIO" /\ b.workoutAt = {} /\ CreateWorkout(b)
    \/ \E id \in WorkoutIds, b \in WorkoutUpdateBodies :
          Present(b) \subseteq {"memberId"} /\ UpdateWorkout(id, b)
    \/ \E id \in WorkoutIds : DeleteWorkout(id)
    \/ \E id \in MemberIds : DeleteMember(id)

SpecOwner == InitPay /\ [][NextOwner]_vars

\* ------------------------------------- concurrent POST /members requests
Requests == {1, 2}

\* the unique index of the member table on email refuses the row
UniqueViolation(email) == findByEmail(email) # {}

\* router.post('/') up to its findUnique
RaceCheck(r) ==
    LET q == race[r]
    IN  /\ q.pc = "start"
        /\ IF findByEmail(normalizeEmail(q.email)) # {}
           THEN race' = [race EXCEPT ![r] =
                    [q EXCEPT !.pc = "done", !.error = "ConflictError",
                              !.code = errorHandler(CustomError(ConflictError))]]
           ELSE race' = [race EXCEPT ![r] = [q EXCEPT !.pc = "create"]]
        /\ UNCHANGED <<now, members, payments, workouts, issued, last, aux>>

\* router.post('/') from prisma.member.create on
RaceCreate(r) ==
    LET q == race[r]
        email == normalizeEmail(q.email)
        id == NewMemberId
    IN  /\ q.pc = "create"
        /\ IF UniqueViolation(email)
           THEN /\ race' = [race EXCEPT ![r] =
                      [q EXCEPT !.pc = "done", !.error = "P2002",
                                !.code = errorHandler(PrismaError("P2002"))]]
                /\ UNCHANGED members
           ELSE /\ members' = [i \in DOMAIN members \cup {id} |->
                      IF i = id
                      THEN [name |-> "Al", age |-> 25, gender |-> "MALE",
                            email |-> email, phone |-> "5550001111",
                            membershipType |-> "ONE_MONTH",
                            expiryDate |-> q.expiryDate,
                            status |-> PostStatus(q.expiryDate, now)]
                      ELSE members[i]]
                /\ race' = [race EXCEPT ![r] =
                      [q EXCEPT !.pc = "done", !.code = Created, !.id = id]]
        /\ UNCHANGED <<now, payments, workouts, issued, last, aux>>

\* two requests arrive at a store that is empty or holds one member
InitRace ==
    /\ now = 0
    /\ \E old \in Opt({normalizeEmail(e) : e \in RawEmails}) :
          members = IF old = {} THEN << >>
                    ELSE <<[name |-> "Al", age |-> 25, gender |-> "MALE",
                            email |-> Val(old), phone |-> "5550001111",
                            membershipType |-> "ONE_MONTH",
                            expiryDate |-> ThirtyDays + 1, status |-> "ACTIVE"]>>
    /\ payments = << >>
    /\ workouts = << >>
    /\ issued = [payment |-> 0, workout |-> 0]
    /\ last = Reply("INIT", 0, 0, NoBody)
    /\ race \in [Requests ->
                   [email : RawEmails, expiryDate : {0, ThirtyDays + 1},
                    pc : {"start"}, error : {"none"}, code : {0}, id : {0}]]
    /\ checkIns = << >> /\ view = NoView /\ ui = << >>
    /\ auth = [users |-> << >>, secret |-> TRUE]

NextRace == \E r \in Requests : RaceCheck(r) \/ RaceCreate(r)

SpecRace == InitRace /\ [][NextRace]_vars

\* ------------------------------------------------------------ calendar
\* day 0 is 1 January 2024
IsLeap(y) == (y % 4 = 0 /\ y % 100 # 0) \/ y % 400 = 0
DaysInYear(y) == IF IsLeap(y) THEN 366 ELSE 365
DaysInMonth(y, m) ==
    CASE m = 2 -> IF IsLeap(y) THEN 29 ELSE 28
      [] m \in {4, 6, 9, 11} -> 30
      [] OTHER -> 31

RECURSIVE YearFrom(_, _)
YearFrom(y, d) == IF d < DaysInYear(y) THEN y ELSE YearFrom(y + 1, d - DaysInYear(y))

RECURSIVE DayOfYearFrom(_, _)
DayOfYearFrom(y, d) ==
    IF d < DaysInYear(y) THEN d ELSE DayOfYearFrom(y + 1, d - DaysInYear(y))

RECURSIVE MonthFrom(_, _, _)
MonthFrom(y, m, d) ==
    IF d < DaysInMonth(y, m) THEN m ELSE MonthFrom(y, m + 1, d - DaysInMonth(y, m))

\* EXTRACT(YEAR FROM ...), new Date().getFullYear()
ExtractYear(d) == YearFrom(2024, d)

\* EXTRACT(MONTH FROM ...)
ExtractMonth(d) == MonthFrom(ExtractYear(d), 1, DayOfYearFrom(2024, d))

\* ------------------------------------------------- JavaScript numbers
Num(n) == [t |-> "number", v |-> n]
NaN == [t |-> "NaN", v |-> 0]
Undefined == [t |-> "undefined", v |-> 0]

\* Number(x)
Number(x) == IF x.t = "number" THEN x ELSE NaN

\* row.key: undefined when the row has no such property
Prop(row, key) == IF key \in DOMAIN row THEN Num(row[key]) ELSE Undefined

\* ------------------------------------------------- dashboard: monthly
\* PostgreSQL folds an unquoted column alias to lower case
FoldAlias(alias) ==
    CASE alias = "newMembers" -> "newmembers"
      [] alias = "checkIns" -> "checkins"
      [] OTHER -> alias

RECURSIVE SumOver(_, _)
\* the sum of f[i] over the set S of indexes
SumOver(f, S) ==
    IF S = {} THEN 0
    ELSE LET i == CHOOSE x \in S : TRUE IN f[i] + SumOver(f, S \ {i})

\* the rows of a GROUP BY month query: one row per month that has a
\* matching record, ORDER BY month; hit[m] is the set of matching records
\* of month m and value[m] the aggregate of the month
GroupByMonth(hit, value, alias) ==
    LET months == {m \in 1..12 : hit[m] # {}}
        row(m) == ("month" :> m) @@ (FoldAlias(alias) :> value[m])
        RECURSIVE rows(_)
        rows(m) == IF m > 12 THEN << >>
                   ELSE (IF m \in months THEN <<row(m)>> ELSE << >>) \o rows(m + 1)
    IN  rows(1)

\* SELECT ... COUNT(*) as newMembers FROM members WHERE year = ${year}
NewMembersQuery(year) ==
    LET hit == [m \in 1..12 |->
                  {i \in DOMAIN members :
                          /\ ExtractYear(members[i].joinDate) = year
                          /\ ExtractMonth(members[i].joinDate) = m}]
        value == [m \in 1..12 |-> Cardinality(hit[m])]
    IN  GroupByMonth(hit, value, "newMembers")

\* RevenueQuery without the condition on status
RevenueQueryAnyStatus(year) ==
    LET hit == [m \in 1..12 |->
                  {i \in DOMAIN payments :
                          /\ payments[i].paidAt # {}
                          /\ ExtractYear(Val(payments[i].paidAt)) = year
                          /\ ExtractMonth(Val(payments[i].paidAt)) = m}]
        value == [m \in 1..12 |->
                    SumOver([i \in DOMAIN payments |-> payments[i].amount], hit[m])]
    IN  GroupByMonth(hit, value, "revenue")

\* SELECT ... COALESCE(SUM(amount), 0) as revenue FROM payments
\* WHERE year = ${year} AND status = 'PAID'
RevenueQuery(year) ==
    LET hit == [m \in 1..12 |->
                  {i \in DOMAIN payments :
                          /\ payments[i].paidAt # {}
                          /\ ExtractYear(Val(payments[i].paidAt)) = year
                          /\ ExtractMonth(Val(payments[i].paidAt)) = m
                          /\ payments[i].status = "PAID"}]
        value == [m \in 1..12 |->
                    SumOver([i \in DOMAIN payments |-> payments[i].amount], hit[m])]
    IN  GroupByMonth(hit, value, "revenue")

\* SELECT ... COUNT(*) as checkIns FROM check_ins WHERE year = ${year}
CheckInsQuery(year) ==
    LET hit == [m \in 1..12 |->
                  {i \in DOMAIN checkIns :
                          /\ ExtractYear(checkIns[i].checkInAt) = year
                          /\ ExtractMonth(checkIns[i].checkInAt) = m}]
        value == [m \in 1..12 |-> Cardinality(hit[m])]
    IN  GroupByMonth(hit, value, "checkIns")

monthNames ==
    <<"Jan", "Feb", "Mar", "Apr", "May", "Jun",
      "Jul", "Aug", "Sep", "Oct", "Nov", "Dec">>

\* rows.find(s => Number(s.month) === monthNumber): the rows found
Find(rows, monthNumber) ==
    LET at == {k \in DOMAIN rows : Number(Prop(rows[k], "month")) = Num(monthNumber)}
    IN  IF at = {} THEN {}
        ELSE {rows[CHOOSE k \in at : \A j \in at : k <= j]}

\* data ? Number(data.key) : 0
Figure(found, key) == IF found = {} THEN Num(0) ELSE Number(Prop(Val(found), key))

\* formattedStats without the months that have no row
formattedStatsSparse(year) ==
    LET monthlyStats == NewMembersQuery(year)
        monthlyRevenue == RevenueQuery(year)
        monthlyCheckIns == CheckInsQuery(year)
        all == [index \in 1..12 |->
                  [month |-> monthNames[index], monthNumber |-> index,
                   newMembers |-> Figure(Find(monthlyStats, index), "newmembers"),
                   revenue |-> Figure(Find(monthlyRevenue, index), "revenue"),
                   checkIns |-> Figure(Find(monthlyCheckIns, index), "checkIns"),
                   year |-> year]]
        has(b) == \/ Find(monthlyStats, b.monthNumber) # {}
                  \/ Find(monthlyRevenue, b.monthNumber) # {}
                  \/ Find(monthlyCheckIns, b.monthNumber) # {}
    IN  SelectSeq(all, has)

\* router.get('/monthly-stats'): formattedStats
formattedStats(year) ==
    LET monthlyStats == NewMembersQuery(year)
        monthlyRevenue == RevenueQuery(year)
        monthlyCheckIns == CheckInsQuery(year)
    IN  [index \in 1..12 |->
           [month |-> monthNames[index], monthNumber |-> index,
            newMembers |-> Figure(Find(monthlyStats, index), "newmembers"),
            revenue |-> Figure(Find(monthlyRevenue, index), "revenue"),
            checkIns |-> Figure(Find(monthlyCheckIns, index), "checkIns"),
            year |-> year]]

\* query('year').optional().isInt({ min: 2020, max: 2030 })
Years == {2024, 2025}

\* router.get('/monthly-stats'), on a query that passed validation
GetMonthlyStats(year) ==
    /\ view' = [kind |-> "monthly-stats",
                year |-> Pick(year, ExtractYear(now)),
                data |-> formattedStats(Pick(year, ExtractYear(now)))]
    /\ UNCHANGED <<now, members, payments, workouts, issued, last, race,
                   checkIns, ui, auth>>

\* rows that the dashboard reads
EmailOf(i) == <<CASE i = 1 -> "a" [] i = 2 -> "b" [] i = 3 -> "c" [] OTHER -> "d", "@", "x">>

MemberRow(i, age, gender, membershipType, expiryDate, status, joinDate) ==
    [name |-> "Al", age |-> age, gender |-> gender, email |-> EmailOf(i),
     phone |-> "5550001111", membershipType |-> membershipType,
     expiryDate |-> expiryDate, status |-> status, joinDate |-> joinDate]

\* 1 January 2024, 31 December 2024, 1 January 2025
StatDates == {0, 365, 366}

StoredPayments ==
    {p \in [memberId : {1}, amount : Amounts, paymentType : PaymentTypes,
            dueDate : {0}, status : {"PAID", "PENDING"},
            paidAt : Opt(StatDates), notes : {{}}] :
        /\ p.status = "PAID" => p.paidAt # {}
        /\ p.status = "PENDING" => p.paidAt \in Opt({0})}

\* the tables of length 0..n over the rows of S
Tables(S, n) == UNION {[1..k -> S] : k \in 0..n}

\* the member tables of length 0..n over the rows of S, the email of a row
\* being that of its position: emails are unique in the table
MemberTables(S, n) ==
    UNION {{[i \in 1..k |-> [t[i] EXCEPT !.email = EmailOf(i)]] : t \in [1..k -> S]} :
              k \in 0..n}

MaxCheckIns == 1

InitMonthly ==
    /\ now = 366
    /\ members \in MemberTables({MemberRow(1, 25, "MALE", "ONE_MONTH", 400, "ACTIVE", d) :
                             d \in StatDates}, MaxMembers)
    /\ payments \in Tables(StoredPayments, MaxPayments)
    /\ checkIns \in Tables([memberId : {1}, checkInAt : {0, 366}], MaxCheckIns)
    /\ workouts = << >>
    /\ issued = [payment |-> Len(payments), workout |-> 0]
    /\ last = Reply("INIT", 0, 0, NoBody)
    /\ race = << >>
    /\ view = NoView /\ ui = << >>
    /\ auth = [users |-> << >>, secret |-> TRUE]

NextMonthly == \E year \in Opt(Years) : GetMonthlyStats(year)

SpecMonthly == InitMonthly /\ [][NextMonthly]_vars

\* ------------------------------------------------ dashboard: overview
RECURSIVE DayOfMonthFrom(_, _, _)
DayOfMonthFrom(y, m, d) ==
    IF d < DaysInMonth(y, m) THEN d ELSE DayOfMonthFrom(y, m + 1, d - DaysInMonth(y, m))

\* startOfMonth.setDate(1)
StartOfMonth(d) == d - DayOfMonthFrom(ExtractYear(d), 1, DayOfYearFrom(2024, d))

\* prisma.member.count({ where })
CountMembers(where) == Cardinality({i \in DOMAIN members : where[i]})

\* router.get('/overview'): data
Overview ==
    LET any == [i \in DOMAIN members |-> TRUE]
        active == [i \in DOMAIN members |-> members[i].status = "ACTIVE"]
        inactive == [i \in DOMAIN members |-> members[i].status = "INACTIVE"]
        expiring == [i \in DOMAIN members |->
                        /\ members[i].status = "ACTIVE"
                        /\ members[i].expiryDate <= now + ThirtyDays
                        /\ members[i].expiryDate >= now]
        joined == [i \in DOMAIN members |-> members[i].joinDate >= StartOfMonth(now)]
        paid == {i \in DOMAIN payments :
                    /\ payments[i].status = "PAID"
                    /\ payments[i].paidAt # {}
                    /\ Val(payments[i].paidAt) >= StartOfMonth(now)}
    IN  [totalMembers |-> CountMembers(any),
         activeMembers |-> CountMembers(active),
         inactiveMembers |-> CountMembers(inactive),
         expiringSoon |-> CountMembers(expiring),
         todayCheckIns |-> Cardinality({i \in DOMAIN checkIns :
                                           checkIns[i].checkInAt = now}),
         monthlyRevenue |-> SumOver([i \in DOMAIN payments |-> payments[i].amount], paid),
         newMembersThisMonth |-> CountMembers(joined)]

\* the dashboard requests change nothing but the response
DashUnchanged == UNCHANGED <<now, members, payments, workouts, issued, last, race,
                             checkIns, ui, auth>>

GetOverview ==
    /\ view' = [kind |-> "overview", data |-> Overview]
    /\ DashUnchanged

\* prisma.member.groupBy({ by: [field], where: { status: { not: 'ARCHIVED' } } }):
\* one item per value of the field that some counted member has
GroupBy(field) ==
    LET counted == {i \in DOMAIN members : members[i].status # "ARCHIVED"}
    IN  {[key |-> k, count |-> Cardinality({i \in counted : members[i][field] = k})] :
            k \in {members[i][field] : i \in counted}}

\* router.get('/membership-distribution')
GetMembershipDistribution ==
    /\ view' = [kind |-> "membership-distribution", data |-> GroupBy("membershipType")]
    /\ DashUnchanged

\* router.get('/gender-distribution')
GetGenderDistribution ==
    /\ view' = [kind |-> "gender-distribution", data |-> GroupBy("gender")]
    /\ DashUnchanged

\* ageRanges with the second range starting one year late
ageRangesGap ==
    <<[min |-> 16, max |-> 25, label |-> "16-25"],
      [min |-> 27, max |-> 35, label |-> "26-35"],
      [min |-> 36, max |-> 45, label |-> "36-45"],
      [min |-> 46, max |-> 55, label |-> "46-55"],
      [min |-> 56, max |-> 100, label |-> "56+"]>>

ageRanges ==
    <<[min |-> 16, max |-> 25, label |-> "16-25"],
      [min |-> 26, max |-> 35, label |-> "26-35"],
      [min |-> 36, max |-> 45, label |-> "36-45"],
      [min |-> 46, max |-> 55, label |-> "46-55"],
      [min |-> 56, max |-> 100, label |-> "56+"]>>

\* router.get('/age-distribution')
GetAgeDistribution ==
    /\ view' = [kind |-> "age-distribution",
                data |-> [r \in DOMAIN ageRanges |->
                            LET inRange == [i \in DOMAIN members |->
                                              /\ members[i].age >= ageRanges[r].min
                                              /\ members[i].age <= ageRanges[r].max
                                              /\ members[i].status # "ARCHIVED"]
                            IN  [range |-> ageRanges[r].label,
                                 count |-> CountMembers(inRange)]]]
    /\ DashUnchanged

\* the ages at the ends of the ranges that validateMember accepts
EdgeAges == {16, 25, 26, 35, 36, 45, 46, 55, 56, 100}

\* 31 December 2024 and 1 January 2025
JoinDates == {365, 366}

\* stores whose members differ in age, or in status, gender, membership
\* type and join date; the clock is at 15 January 2025
InitDash ==
    /\ now = 380
    /\ \/ members \in MemberTables({MemberRow(1, a, "MALE", "ONE_MONTH", 400, st, 365) :
                                 a \in EdgeAges, st \in {"ACTIVE", "ARCHIVED"}},
                             MaxMembers)
       \/ members \in MemberTables({MemberRow(1, 25, g, t, 400, st, d) :
                                 g \in {"MALE", "FEMALE"},
                                 t \in {"ONE_MONTH", "ONE_YEAR"},
                                 st \in Statuses, d \in JoinDates},
                             MaxMembers)
    /\ payments = << >> /\ checkIns = << >> /\ workouts = << >>
    /\ issued = [payment |-> 0, workout |-> 0]
    /\ last = Reply("INIT", 0, 0, NoBody)
    /\ race = << >>
    /\ view = NoView /\ ui = << >>
    /\ auth = [users |-> << >>, secret |-> TRUE]

NextDash ==
    \/ GetOverview
    \/ GetMembershipDistribution
    \/ GetGenderDistribution
    \/ GetAgeDistribution

SpecDash == InitDash /\ [][NextDash]_vars

\* ------------------------------------------------------ member filters
\* String.prototype.toLowerCase
toLowerCase(str) == [i \in DOMAIN str |-> Lower(str[i])]

\* String.prototype.includes
includes(str, sub) ==
    \E k \in 0..(Len(str) - Len(sub)) : SubSeq(str, k + 1, k + Len(sub)) = sub

\* MemberManagement: filteredMembers, the test of one member
MatchesManagement(member, searchTerm, statusFilter, membershipFilter) ==
    LET matchesSearch ==
            \/ includes(toLowerCase(member.name), toLowerCase(searchTerm))
            \/ includes(toLowerCase(member.email), toLowerCase(searchTerm))
            \/ includes(member.phone, searchTerm)
        matchesStatus ==
            CASE statusFilter = "all" -> member.status # "ARCHIVED"
              [] statusFilter = "active" -> member.status = "ACTIVE"
              [] statusFilter = "inactive" -> member.status = "INACTIVE"
              [] statusFilter = "expiring" -> member.status = "EXPIRING_SOON"
              [] statusFilter = "archived" -> member.status = "ARCHIVED"
              [] OTHER -> TRUE
        matchesMembership ==
            membershipFilter = "all" \/ member.membershipType = membershipFilter
    IN  matchesSearch /\ matchesStatus /\ matchesMembership

\* Index: filteredMembers, the test of one member
MatchesIndex(member, searchTerm, statusFilter, membershipFilter) ==
    LET matchesSearch ==
            \/ includes(toLowerCase(member.name), toLowerCase(searchTerm))
            \/ includes(toLowerCase(member.email), toLowerCase(searchTerm))
            \/ includes(member.phone, searchTerm)
        matchesStatus == statusFilter = "all" \/ member.status = statusFilter
        matchesMembership ==
            membershipFilter = "all" \/ member.membershipType = membershipFilter
    IN  matchesSearch /\ matchesStatus /\ matchesMembership

\* filteredMembers of the page that u is the state of
filteredMembers(u) ==
    {i \in DOMAIN members :
        IF u.page = "MemberManagement"
        THEN MatchesManagement(members[i], u.searchTerm, u.statusFilter,
                               u.membershipFilter)
        ELSE MatchesIndex(members[i], u.searchTerm, u.statusFilter,
                          u.membershipFilter)}

\* MemberFilters: the values of filterButtons
FilterButtons == {"All Members", "Active", "Inactive", "Expiring Soon", "Archived"}

\* handleStatusFilterChange: filterMap
filterMap(newFilter) ==
    CASE newFilter = "All Members" -> "all"
      [] newFilter = "Active" -> "active"
      [] newFilter = "Inactive" -> "inactive"
      [] newFilter = "Expiring Soon" -> "expiring"
      [] newFilter = "Archived" -> "archived"
      [] OTHER -> newFilter

\* the texts typed in the search box
SearchTerms == {<< >>, <<"b">>, <<"A">>}

\* MemberFilters: the SelectItem values that the stored members can have
MembershipFilters == {"all", "ONE_MONTH", "ONE_YEAR"}

\* the state of a page after setSearchTerm(term)
AfterSearch(u, term) == [u EXCEPT !.searchTerm = term]

\* the state of a page after a click on a status button: MemberManagement
\* passes handleStatusFilterChange to the buttons, Index its setStatusFilter
AfterStatus(u, newFilter) ==
    IF u.page = "MemberManagement"
    THEN [u EXCEPT !.statusFilter = filterMap(newFilter), !.searchTerm = << >>]
    ELSE [u EXCEPT !.statusFilter = newFilter]

\* the state of a page after setMembershipFilter(type)
AfterMembership(u, type) == [u EXCEPT !.membershipFilter = type]

UiUnchanged == UNCHANGED <<now, members, payments, workouts, issued, last, race,
                           checkIns, view, auth>>

\* MemberFilters: onChange of the search input
setSearchTerm(term) ==
    /\ ui' = AfterSearch(ui, term)
    /\ UiUnchanged

\* MemberManagement: handleStatusFilterChange
handleStatusFilterChange(newFilter) ==
    /\ ui.page = "MemberManagement"
    /\ ui' = AfterStatus(ui, newFilter)
    /\ UiUnchanged

\* Index: setStatusFilter
setStatusFilter(newFilter) ==
    /\ ui.page = "Index"
    /\ ui' = AfterStatus(ui, newFilter)
    /\ UiUnchanged

\* MemberFilters: onValueChange of the membership select
setMembershipFilter(type) ==
    /\ ui' = AfterMembership(ui, type)
    /\ UiUnchanged

\* a phone number of digits and one that ends in a letter
FilterPhones ==
    {<<"5", "5", "5", "0", "0", "0", "1", "1", "1", "1">>,
     <<"5", "5", "5", "0", "0", "0", "1", "1", "1", "B">>}

\* the name of the member at position i
NameOf(i) ==
    CASE i = 1 -> <<"A", "l">> [] i = 2 -> <<"B", "o">> [] OTHER -> <<"C", "y">>

\* the member tables that the lists are taken from: names and emails by
\* position, status, membership type and phone varying
ListedTables ==
    {[i \in DOMAIN t |-> [t[i] EXCEPT !.name = NameOf(i)]] :
        t \in MemberTables({[MemberRow(1, 25, "MALE", ty, 400, st, 365)
                                EXCEPT !.phone = ph] :
                               ty \in {"ONE_MONTH", "ONE_YEAR"},
                               st \in Statuses, ph \in FilterPhones},
                           MaxMembers)}

\* a page as it opens: MemberManagement with the filter of the URL that a
\* dashboard card navigated to, or without one
InitFilter ==
    /\ now = 380
    /\ members \in ListedTables
    /\ payments = << >> /\ checkIns = << >> /\ workouts = << >>
    /\ issued = [payment |-> 0, workout |-> 0]
    /\ last = Reply("INIT", 0, 0, NoBody)
    /\ race = << >>
    /\ view = NoView
    /\ auth = [users |-> << >>, secret |-> TRUE]
    /\ \/ \E f \in {"all", "active", "inactive", "expiring"} :
             ui = [page |-> "MemberManagement", searchTerm |-> << >>,
                   statusFilter |-> f, membershipFilter |-> "all"]
       \/ ui = [page |-> "Index", searchTerm |-> << >>,
                statusFilter |-> "all", membershipFilter |-> "all"]

NextFilter ==
    \/ \E term \in SearchTerms : setSearchTerm(term)
    \/ \E newFilter \in FilterButtons : handleStatusFilterChange(newFilter)
    \/ \E newFilter \in FilterButtons : setStatusFilter(newFilter)
    \/ \E type \in MembershipFilters : setMembershipFilter(type)

SpecFilter == InitFilter /\ [][NextFilter]_vars

\* ------------------------------------------------------- GET /members
\* query('search').optional().trim(): without the blanks at both ends
RECURSIVE trim(_)
trim(str) ==
    IF str = << >> THEN str
    ELSE IF Head(str) = " " THEN trim(Tail(str))
    ELSE IF str[Len(str)] = " " THEN trim(SubSeq(str, 1, Len(str) - 1))
    ELSE str

\* { contains: search, mode: 'insensitive' }
containsInsensitive(str, search) == includes(toLowerCase(str), toLowerCase(search))

\* router.get('/'): the where clause, on one member
Where(member, search, status, membershipType) ==
    /\ search # << >> =>
          \/ containsInsensitive(member.name, search)
          \/ containsInsensitive(member.email, search)
          \/ containsInsensitive(member.phone, search)
    /\ status # {} => member.status = Val(status)
    /\ membershipType # {} => member.membershipType = Val(membershipType)

\* limit = 10
DefaultLimit == 10

\* findMany({ where, orderBy: { [sortBy]: sortOrder } }): the orders in
\* which the rows ids may come back, ascending or descending in the key;
\* the query does not fix the order of rows with equal keys
Ordered(ids, key, desc) ==
    {o \in [1..Cardinality(ids) -> ids] :
        /\ \A a, b \in DOMAIN o : a # b => o[a] # o[b]
        /\ \A a, b \in DOMAIN o :
              a < b => IF desc THEN key[o[a]] >= key[o[b]] ELSE key[o[a]] <= key[o[b]]}

\* the response of a list route: BadRequestError when a validator of the
\* route, of page or of limit fails, else the rows from skip on, at most
\* limit of them, with the pagination block
Page(kind, q, invalid, order) ==
    LET page == IF q.page = {} THEN 1 ELSE Val(q.page)
        limit == IF q.limit = {} THEN DefaultLimit ELSE Val(q.limit)
        skip == (page - 1) * limit
        total == Len(order)
        end == IF skip + limit < total THEN skip + limit ELSE total
    IN  IF invalid \/ page < 1 \/ limit < 1 \/ limit > 100
        THEN [kind |-> kind, query |-> q, code |-> BadRequestError, data |-> << >>,
              total |-> 0, page |-> 0, limit |-> 0, pages |-> 0]
        ELSE [kind |-> kind, query |-> q, code |-> OK,
              data |-> IF skip >= total THEN << >> ELSE SubSeq(order, skip + 1, end),
              total |-> total, page |-> page, limit |-> limit,
              pages |-> (total + limit - 1) \div limit]

\* router.get('/') of the members: ordered by name unless sortBy names the
\* join date; a membershipType that passes isIn and is no value of the enum
\* is refused by the query (PrismaClientValidationError, 400)
GetMembers(q) ==
    LET selected == {i \in DOMAIN members :
                        Where(members[i], trim(q.search), q.status, q.membershipType)}
        key == [i \in DOMAIN members |->
                   IF q.sortBy = {"joinDate"} THEN members[i].joinDate
                   ELSE CHOOSE k \in 1..3 : NameOf(k) = members[i].name]
        invalid == /\ q.membershipType # {}
                   /\ \/ Val(q.membershipType) \notin
                            {"ONE_MONTH", "THREE_MONTH", " SIX_MONTH", "ONE_YEAR"}
                      \/ Val(q.membershipType) = " SIX_MONTH"
    IN  /\ \E order \in Ordered(selected, key, FALSE) :
              view' = Page("members", q, invalid, order)
        /\ DashUnchanged

\* router.get('/') of the payments: ordered by createdAt, which follows the
\* ids, or by amount, descending
GetPayments(q) ==
    LET selected == {i \in DOMAIN payments :
                        /\ q.memberId # {} => payments[i].memberId = Val(q.memberId)
                        /\ q.status # {} => payments[i].status = Val(q.status)}
        key == [i \in DOMAIN payments |->
                   IF q.sortBy = {"amount"} THEN payments[i].amount ELSE i]
    IN  /\ \E order \in Ordered(selected, key, TRUE) :
              view' = Page("payments", q, FALSE, order)
        /\ DashUnchanged

\* router.get('/') of the workouts: ordered by workoutAt or by duration,
\* descending
GetWorkouts(q) ==
    LET selected == {i \in DOMAIN workouts :
                        /\ q.memberId # {} => workouts[i].memberId = Val(q.memberId)
                        /\ q.workoutType # {} =>
                              workouts[i].workoutType = Val(q.workoutType)
                        /\ q.startDate # {} => workouts[i].workoutAt >= Val(q.startDate)
                        /\ q.endDate # {} => workouts[i].workoutAt <= Val(q.endDate)}
        key == [i \in DOMAIN workouts |->
                   IF q.sortBy = {"duration"} THEN workouts[i].duration
                   ELSE workouts[i].workoutAt]
    IN  /\ \E order \in Ordered(selected, key, TRUE) :
              view' = Page("workouts", q, FALSE, order)
        /\ DashUnchanged

\* the search parameters sent, one of them with a blank at its end
SearchParams == SearchTerms \cup {<<"b", " ">>}

InitList ==
    /\ now = 380
    /\ members \in ListedTables
    /\ payments = << >> /\ checkIns = << >> /\ workouts = << >>
    /\ issued = [payment |-> 0, workout |-> 0]
    /\ last = Reply("INIT", 0, 0, NoBody)
    /\ race = << >>
    /\ view = NoView /\ ui = << >>
    /\ auth = [users |-> << >>, secret |-> TRUE]

NextList ==
    \E search \in SearchParams, status \in Opt(Statuses),
       membershipType \in Opt({"ONE_MONTH", "ONE_YEAR"}) :
        GetMembers([search |-> search, status |-> status,
                    membershipType |-> membershipType, sortBy |-> {},
                    page |-> {}, limit |-> {}])

SpecList == InitList /\ [][NextList]_vars

\* members, two of them of one name and join date, with up to MaxPayments
\* payments and MaxWorkouts workouts of the first member
InitPages ==
    /\ now = 380
    /\ members \in
          MemberTables({[MemberRow(1, 25, "MALE", "SIX_MONTH", 400, "ACTIVE", 365)
                            EXCEPT !.name = NameOf(1)],
                        [MemberRow(1, 25, "MALE", "ONE_YEAR", 400, "ACTIVE", 365)
                            EXCEPT !.name = NameOf(1)],
                        [MemberRow(1, 25, "MALE", "ONE_YEAR", 400, "ACTIVE", 0)
                            EXCEPT !.name = NameOf(2)]},
                       MaxMembers)
    /\ payments \in Tables([memberId : {1}, amount : {10}, paymentType : PaymentTypes,
                            dueDate : {400}, status : {"PENDING"}, paidAt : {{}},
                            notes : {{}}], MaxPayments)
    /\ workouts \in Tables([memberId : {1}, workoutType : {"CARDIO"},
                            duration : Durations, workoutAt : {365}], MaxWorkouts)
    /\ members = << >> => payments = << >> /\ workouts = << >>
    /\ checkIns = << >>
    /\ issued = [payment |-> Len(payments), workout |-> Len(workouts)]
    /\ last = Reply("INIT", 0, 0, NoBody)
    /\ race = << >>
    /\ view = NoView /\ ui = << >>
    /\ auth = [users |-> << >>, secret |-> TRUE]

\* the list requests: pages from 0 to one beyond the last, the limits 0, 1
\* and 101 and the default
NextPages ==
    \E page \in Opt(0..(MaxMembers + 1)), limit \in Opt({0, 1, 101}) :
        \/ \E membershipType \in Opt({"ONE_MONTH", "THREE_MONTH", "SIX_MONTH",
                                      " SIX_MONTH", "ONE_YEAR"}),
              sortBy \in Opt({"joinDate"}) :
              GetMembers([search |-> << >>, status |-> {},
                          membershipType |-> membershipType, sortBy |-> sortBy,
                          page |-> page, limit |-> limit])
        \/ \E memberId \in Opt({1}), sortBy \in Opt({"amount"}) :
              GetPayments([memberId |-> memberId, status |-> {}, sortBy |-> sortBy,
                           page |-> page, limit |-> limit])
        \/ \E workoutType \in Opt({"CARDIO"}), startDate \in Opt({366}),
              sortBy \in Opt({"duration"}) :
              GetWorkouts([memberId |-> {}, workoutType |-> workoutType,
                           startDate |-> startDate, endDate |-> {},
                           sortBy |-> sortBy, page |-> page, limit |-> limit])

SpecPages == InitPages /\ [][NextPages]_vars

\* --------------------------------------------------- thrown errors
\* the statusCode fields of thrown errors: those of the CustomError
\* classes and the ends of the range that errorHandler accepts
StatusCodes == {99, 100, 400, 401, 403, 404, 409, 429, 500, 599, 600}

ErrorNames ==
    {"Error", "PrismaClientKnownRequestError", "PrismaClientValidationError",
     "JsonWebTokenError", "TokenExpiredError", "ValidationError", "MulterError"}

\* the errors passed to next(error)
Errors ==
    {e \in [name : ErrorNames, code : {"", "P2002", "P2025", "P2003", "P2000"},
            statusCode : Opt(StatusCodes), tooMany : BOOLEAN] :
        e.code # "" <=> e.name = "PrismaClientKnownRequestError"}

\* errorHandler: res.status(statusCode).json({ success: false, ... })
HandleError ==
    /\ view.kind = "thrown"
    /\ view' = [kind |-> "error-response", error |-> view.error,
                statusCode |-> errorHandler(view.error), success |-> FALSE]
    /\ DashUnchanged

InitErr ==
    /\ now = 0
    /\ members = << >> /\ payments = << >> /\ checkIns = << >> /\ workouts = << >>
    /\ issued = [payment |-> 0, workout |-> 0]
    /\ last = Reply("INIT", 0, 0, NoBody)
    /\ race = << >>
    /\ ui = << >>
    /\ auth = [users |-> << >>, secret |-> TRUE]
    /\ \E e \in Errors : view = [kind |-> "thrown", error |-> e]

NextErr == HandleError

SpecErr == InitErr /\ [][NextErr]_vars

\* ------------------------------------------------------------- auth
MaxUsers == 2

\* the error of router.get('/me') and router.post('/refresh') for an
\* Authorization header, none for a request that is let through; a header
\* is absent or a scheme with a token [id, signed, exp], and jwt.verify
\* checks the signature before the expiry
BearerErrorAnyUser(header) ==
    IF header = {} \/ Val(header).scheme # "Bearer " THEN {CustomError(401)}
    ELSE IF ~auth.secret
    THEN {[name |-> "Error", code |-> "", statusCode |-> {}, tooMany |-> FALSE]}
    ELSE IF ~Val(header).token.signed
    THEN {[name |-> "JsonWebTokenError", code |-> "", statusCode |-> {},
           tooMany |-> FALSE]}
    ELSE IF now >= Val(header).token.exp
    THEN {[name |-> "TokenExpiredError", code |-> "", statusCode |-> {},
           tooMany |-> FALSE]}
    ELSE {}

BearerError(header) ==
    IF header = {} \/ Val(header).scheme # "Bearer " THEN {CustomError(401)}
    ELSE IF ~auth.secret
    THEN {[name |-> "Error", code |-> "", statusCode |-> {}, tooMany |-> FALSE]}
    ELSE IF ~Val(header).token.signed
    THEN {[name |-> "JsonWebTokenError", code |-> "", statusCode |-> {},
           tooMany |-> FALSE]}
    ELSE IF now >= Val(header).token.exp
    THEN {[name |-> "TokenExpiredError", code |-> "", statusCode |-> {},
           tooMany |-> FALSE]}
    ELSE IF \/ Val(header).token.id \notin DOMAIN auth.users
            \/ ~auth.users[Val(header).token.id].isActive
    THEN {CustomError(401)}
    ELSE {}

\* the response of an auth route: status and message, and the token of
\* the data when one is issued
AuthReply(op, request, code, message, token) ==
    [kind |-> "auth", op |-> op, request |-> request, code |-> code,
     message |-> message, token |-> token]

\* router.get('/me')
GetMe(header) ==
    /\ view' = LET e == BearerError(header)
               IN  AuthReply("me", header,
                             IF e = {} THEN OK ELSE errorHandler(Val(e)), "", {})
    /\ UNCHANGED auth
    /\ UNCHANGED <<now, members, payments, workouts, issued, last, race, checkIns, ui>>

\* router.post('/refresh'); jwt.sign with the default expiresIn of 7 days
Refresh(header) ==
    /\ view' = LET e == BearerError(header)
               IN  IF e # {}
                   THEN AuthReply("refresh", header, errorHandler(Val(e)), "", {})
                   ELSE AuthReply("refresh", header, OK, "Token refreshed successfully",
                                  {[id |-> Val(header).token.id, signed |-> TRUE,
                                    exp |-> now + 7]})
    /\ UNCHANGED auth
    /\ UNCHANGED <<now, members, payments, workouts, issued, last, race, checkIns, ui>>

\* router.post('/register'); bcrypt.hash is <<"hash", password>>
Register(body) ==
    LET email == normalizeEmail(body.email)
        id == Len(auth.users) + 1
        created == Append(auth.users,
                          [email |-> email, password |-> <<"hash", body.password>>,
                           name |-> body.name, isActive |-> TRUE])
    IN  /\ IF Len(body.password) < 6 \/ Len(body.name) < 2
           THEN /\ view' = AuthReply("register", body, BadRequestError, "Validation", {})
                /\ UNCHANGED auth
           ELSE IF \E i \in DOMAIN auth.users : auth.users[i].email = email
           THEN /\ view' = AuthReply("register", body, ConflictError,
                                     "User with this email already exists", {})
                /\ UNCHANGED auth
           ELSE /\ id <= MaxUsers
                /\ auth' = [auth EXCEPT !.users = created]
                /\ IF ~auth.secret
                   THEN view' = AuthReply("register", body,
                                          errorHandler([name |-> "Error", code |-> "",
                                                        statusCode |-> {},
                                                        tooMany |-> FALSE]),
                                          "JWT_SECRET not configured", {})
                   ELSE view' = AuthReply("register", body, Created,
                                          "User registered successfully",
                                          {[id |-> id, signed |-> TRUE, exp |-> now + 7]})
        /\ UNCHANGED <<now, members, payments, workouts, issued, last, race, checkIns, ui>>

\* LoginFailure with a message of its own for a deactivated user
LoginFailureTelling(found, password) ==
    IF found = {} THEN {"Invalid credentials"}
    ELSE IF ~auth.users[Val(found)].isActive THEN {"Account deactivated"}
    ELSE IF auth.users[Val(found)].password # <<"hash", password>>
    THEN {"Invalid credentials"}
    ELSE {}

\* router.post('/login'): the message of the UnauthorizedError thrown for
\* the user found and the password, none when both checks pass;
\* bcrypt.compare holds for the hash of the same password
LoginFailure(found, password) ==
    IF found = {} \/ ~auth.users[Val(found)].isActive THEN {"Invalid credentials"}
    ELSE IF auth.users[Val(found)].password # <<"hash", password>>
    THEN {"Invalid credentials"}
    ELSE {}

\* router.post('/login')
Login(body) ==
    LET email == normalizeEmail(body.email)
        found == {i \in DOMAIN auth.users : auth.users[i].email = email}
        failure == LoginFailure(found, body.password)
    IN  /\ view' =
              IF body.password = ""
              THEN AuthReply("login", body, BadRequestError, "Password is required", {})
              ELSE IF failure # {}
              THEN AuthReply("login", body, errorHandler(CustomError(401)),
                             Val(failure), {})
              ELSE IF ~auth.secret
              THEN AuthReply("login", body,
                             errorHandler([name |-> "Error", code |-> "",
                                           statusCode |-> {}, tooMany |-> FALSE]),
                             "JWT_SECRET not configured", {})
              ELSE AuthReply("login", body, OK, "Login successful",
                             {[id |-> Val(found), signed |-> TRUE, exp |-> now + 7]})
        /\ UNCHANGED auth
        /\ UNCHANGED <<now, members, payments, workouts, issued, last, race, checkIns, ui>>

\* a user table of up to MaxUsers users, active or not, with JWT_SECRET
\* set or not, at day 1
InitAuth ==
    /\ now = 1
    /\ members = << >> /\ payments = << >> /\ checkIns = << >> /\ workouts = << >>
    /\ issued = [payment |-> 0, workout |-> 0]
    /\ last = Reply("INIT", 0, 0, NoBody)
    /\ race = << >>
    /\ view = NoView /\ ui = << >>
    /\ \E k \in 0..MaxUsers, active \in [1..MaxUsers -> BOOLEAN], secret \in BOOLEAN :
          auth = [users |-> [i \in 1..k |->
                               [email |-> EmailOf(i), password |-> <<"hash", "pw1234">>,
                                name |-> "Al", isActive |-> active[i]]],
                  secret |-> secret]

\* the requests: headers without a token scheme, with a token that is badly
\* signed, expired (exp = 1) or good, of a user id that may not exist
NextAuth ==
    \/ \E header \in Opt([scheme : {"Bearer ", "Basic "},
                          token : [id : 1..(MaxUsers + 1), signed : BOOLEAN,
                                   exp : {1, 8}]]) :
          GetMe(header) \/ Refresh(header)
    \/ \E body \in [email : RawEmails, password : {"pw1234", "pw"}, name : {"Al"}] :
          Register(body)
    \/ \E body \in [email : RawEmails, password : {"pw1234", "wrong1", ""}] :
          Login(body)

SpecAuth == InitAuth /\ [][NextAuth]_vars

\* ------------------------------------------------ member status switch
\* the status updates that one switch may have pending in a behaviour
MaxPending == 2

\* handleToggle without the isUpdating guard
handleToggleUnguarded(i, checked) ==
    LET newStatus == IF checked THEN "ACTIVE" ELSE "INACTIVE"
    IN  /\ i \in DOMAIN ui
        /\ ui[i].status \notin {"ARCHIVED", "EXPIRING_SOON"}
        /\ Len(ui[i].pending) < MaxPending
        /\ IF ui[i].status = newStatus
           THEN UNCHANGED ui
           ELSE ui' = [ui EXCEPT ![i].isUpdating = TRUE,
                                 ![i].pending = Append(@, newStatus)]
        /\ UiUnchanged

\* MemberStatusSwitch of member i, rendered unless the member is archived
\* or expiring: handleToggle up to the await; onActivate and onDeactivate
\* send PUT /members/:id with the new status
handleToggle(i, checked) ==
    LET newStatus == IF checked THEN "ACTIVE" ELSE "INACTIVE"
    IN  /\ i \in DOMAIN ui
        /\ ui[i].status \notin {"ARCHIVED", "EXPIRING_SOON"}
        /\ Len(ui[i].pending) < MaxPending
        /\ IF ui[i].isUpdating \/ ui[i].status = newStatus
           THEN UNCHANGED ui
           ELSE ui' = [ui EXCEPT ![i].isUpdating = TRUE,
                                 ![i].pending = Append(@, newStatus)]
        /\ UiUnchanged

\* the pending update of switch i settles: answered, the server has
\* stored the status and updateMember has fetched the members again,
\* which may fail without failing the update; or failed, the handler
\* rethrows; handleToggle ends with setIsUpdating(false)
Settle(i, answered, fetched) ==
    /\ i \in DOMAIN ui
    /\ ui[i].pending # << >>
    /\ LET b == [name |-> {}, email |-> {}, expiryDate |-> {},
                 status |-> {Head(ui[i].pending)}]
           data == PutData(b, now)
       IN  IF answered
           THEN /\ members' = [members EXCEPT ![i].status = Pick(data.status, @)]
                /\ last' = Reply("PUT", i, OK, b)
                /\ ui' = [ui EXCEPT ![i].isUpdating = FALSE,
                                    ![i].pending = Tail(@),
                                    ![i].status = IF fetched THEN members'[i].status
                                                  ELSE @,
                                    ![i].done = "answered"]
           ELSE /\ UNCHANGED <<members, last>>
                /\ ui' = [ui EXCEPT ![i].isUpdating = FALSE,
                                    ![i].pending = Tail(@),
                                    ![i].done = "failed"]
    /\ UNCHANGED <<now, payments, workouts, issued, race, checkIns, view, auth>>

\* the page with the members fetched and a switch per member; done is
\* the outcome of the last update of the switch
InitSwitch ==
    /\ now = 380
    /\ members \in MemberTables({MemberRow(1, 25, "MALE", "ONE_MONTH", 400, st, 365) :
                                    st \in Statuses}, MaxMembers)
    /\ ui = [i \in DOMAIN members |->
                [status |-> members[i].status, isUpdating |-> FALSE,
                 pending |-> << >>, done |-> "none"]]
    /\ payments = << >> /\ checkIns = << >> /\ workouts = << >>
    /\ issued = [payment |-> 0, workout |-> 0]
    /\ last = Reply("INIT", 0, 0, NoBody)
    /\ race = << >>
    /\ view = NoView
    /\ auth = [users |-> << >>, secret |-> TRUE]

NextSwitch ==
    \E i \in MemberIds :
        \/ \E checked \in BOOLEAN : handleToggle(i, checked)
        \/ \E answered, fetched \in BOOLEAN : Settle(i, answered, fetched)

SpecSwitch == InitSwitch /\ [][NextSwitch]_vars

\* ------------------------------------------- GET /recent-activities
\* GetRecentActivities without the sort of the combined list
GetRecentActivitiesUnsorted(limit, ci, pa, wo) ==
    LET n == IF limit = {} THEN 20 ELSE Val(limit)
        Take(o) == SubSeq(o, 1, IF Len(o) < n THEN Len(o) ELSE n)
        allActivities ==
            [k \in DOMAIN Take(ci) |->
                [type |-> "CHECK_IN", id |-> ci[k],
                 timestamp |-> checkIns[ci[k]].checkInAt]]
            \o [k \in DOMAIN Take(pa) |->
                [type |-> "PAYMENT", id |-> pa[k],
                 timestamp |-> payments[pa[k]].createdAt]]
            \o [k \in DOMAIN Take(wo) |->
                [type |-> "WORKOUT", id |-> wo[k],
                 timestamp |-> workouts[wo[k]].workoutAt]]
        sortedOf(all) ==
            [r \in DOMAIN all |->
                all[CHOOSE k \in DOMAIN all :
                       Cardinality({j \in DOMAIN all :
                                       \/ all[j].timestamp > all[k].timestamp
                                       \/ /\ all[j].timestamp = all[k].timestamp
                                          /\ j < k}) = r - 1]]
    IN  /\ view' = IF limit # {} /\ (Val(limit) < 1 \/ Val(limit) > 50)
                   THEN [kind |-> "activities", query |-> [limit |-> limit],
                         code |-> BadRequestError, data |-> << >>]
                   ELSE [kind |-> "activities", query |-> [limit |-> limit],
                         code |-> OK, data |-> Take(allActivities)]
        /\ DashUnchanged

\* router.get('/recent-activities'): ci, pa and wo are the orders in which
\* the three findMany return their rows, newest first; the first limit of
\* each are combined, sorted from newest to oldest (Array.prototype.sort
\* keeps the order of equal timestamps) and cut to limit
GetRecentActivities(limit, ci, pa, wo) ==
    LET n == IF limit = {} THEN 20 ELSE Val(limit)
        Take(o) == SubSeq(o, 1, IF Len(o) < n THEN Len(o) ELSE n)
        allActivities ==
            [k \in DOMAIN Take(ci) |->
                [type |-> "CHECK_IN", id |-> ci[k],
                 timestamp |-> checkIns[ci[k]].checkInAt]]
            \o [k \in DOMAIN Take(pa) |->
                [type |-> "PAYMENT", id |-> pa[k],
                 timestamp |-> payments[pa[k]].createdAt]]
            \o [k \in DOMAIN Take(wo) |->
                [type |-> "WORKOUT", id |-> wo[k],
                 timestamp |-> workouts[wo[k]].workoutAt]]
        sortedOf(all) ==
            [r \in DOMAIN all |->
                all[CHOOSE k \in DOMAIN all :
                       Cardinality({j \in DOMAIN all :
                                       \/ all[j].timestamp > all[k].timestamp
                                       \/ /\ all[j].timestamp = all[k].timestamp
                                          /\ j < k}) = r - 1]]
    IN  /\ view' = IF limit # {} /\ (Val(limit) < 1 \/ Val(limit) > 50)
                   THEN [kind |-> "activities", query |-> [limit |-> limit],
                         code |-> BadRequestError, data |-> << >>]
                   ELSE [kind |-> "activities", query |-> [limit |-> limit],
                         code |-> OK, data |-> Take(sortedOf(allActivities))]
        /\ DashUnchanged

\* one member with payments, workouts and check-ins, of these one more
\* than the bound so that a limit of 1 cuts the check-ins, on days 0 to 2
InitRecent ==
    /\ now = 2
    /\ members = <<MemberRow(1, 25, "MALE", "ONE_MONTH", 400, "ACTIVE", 0)>>
    /\ checkIns \in Tables([memberId : {1}, checkInAt : 0..1], MaxCheckIns + 1)
    /\ payments \in Tables([memberId : {1}, amount : {10}, paymentType : PaymentTypes,
                            dueDate : {400}, status : {"PENDING"}, paidAt : {{}},
                            notes : {{}}, createdAt : 0..1], MaxPayments)
    /\ workouts \in Tables([memberId : {1}, workoutType : {"CARDIO"},
                            duration : Durations, workoutAt : 0..2], MaxWorkouts)
    /\ issued = [payment |-> Len(payments), workout |-> Len(workouts)]
    /\ last = Reply("INIT", 0, 0, NoBody)
    /\ race = << >>
    /\ view = NoView /\ ui = << >>
    /\ auth = [users |-> << >>, secret |-> TRUE]

\* the limits 0 and 51, which are refused, 1, 2 and the default
NextRecent ==
    \E limit \in Opt({0, 1, 2, 51}),
       ci \in Ordered(DOMAIN checkIns, [i \in DOMAIN checkIns |-> checkIns[i].checkInAt],
                      TRUE),
       pa \in Ordered(DOMAIN payments, [i \in DOMAIN payments |-> payments[i].createdAt],
                      TRUE),
       wo \in Ordered(DOMAIN workouts, [i \in DOMAIN workouts |-> workouts[i].workoutAt],
                      TRUE) :
        GetRecentActivities(limit, ci, pa, wo)

SpecRecent == InitRecent /\ [][NextRecent]_vars

\* =============================================================== claims

\* C1: a POST /members, and a PUT /members/:id that carries an expiryDate
\* for a member that is not ARCHIVED, stores INACTIVE iff the expiry date
\* d <= now, EXPIRING_SOON iff now < d <= now + 30 days and ACTIVE iff
\* d > now + 30 days, whatever status the body carries.
C1_StatusFromExpiry ==
    [][ ( \/ last'.op = "POST" /\ last'.code = Created
          \/ /\ last'.op = "PUT" /\ last'.code = OK /\ last'.expiryDate
             /\ members[last'.id].status # "ARCHIVED" )
        => LET m == members'[last'.id]
               d == m.expiryDate
           IN  /\ m.status = "INACTIVE" <=> d <= now
               /\ m.status = "EXPIRING_SOON" <=> (now < d /\ d <= now + 30)
               /\ m.status = "ACTIVE" <=> d > now + 30 ]_vars

\* a PUT with expiryDate and a status field stored a derived status at day 1
C1_Witness ==
    /\ last.op = "PUT" /\ last.code = OK /\ last.expiryDate /\ last.status
    /\ now = 1
    /\ members[last.id].status = "EXPIRING_SOON"
    /\ members[last.id].expiryDate = 31

\* C2: a PUT that carries an expiryDate and no status, for a member whose
\* status is ARCHIVED, leaves the status ARCHIVED.
C2_ArchivedNotOverridden ==
    [][ ( /\ last'.op = "PUT" /\ last'.code = OK
          /\ last'.expiryDate /\ ~last'.status
          /\ members[last'.id].status = "ARCHIVED" )
        => members'[last'.id].status = "ARCHIVED" ]_vars

\* C3: once the status of a member is ARCHIVED, no request leaves the
\* member with another status.
C3_ArchivedTerminal ==
    [][ \A i \in DOMAIN members :
          members[i].status = "ARCHIVED" => members'[i].status = "ARCHIVED" ]_vars

\* C4: after every write to a member whose status is then not ARCHIVED, the
\* status is the one the derivation rule gives for the stored expiry date
\* at the time of that write.
C4_StatusDerived ==
    [][ \A i \in DOMAIN members' :
          ( /\ last'.id = i /\ last'.code \in {OK, Created}
            /\ members'[i].status # "ARCHIVED" )
          => LET d == members'[i].expiryDate
             IN  members'[i].status =
                   IF d <= now THEN "INACTIVE"
                   ELSE IF d <= now + 30 THEN "EXPIRING_SOON"
                   ELSE "ACTIVE" ]_vars

\* C5: DELETE /members/:id of a stored member sets its status to ARCHIVED
\* and changes nothing else of the row, and no request removes a member id
\* from the store.
C5_SoftDelete ==
    [][ /\ DOMAIN members \subseteq DOMAIN members'
        /\ (last'.op = "DELETE" /\ last'.code = OK)
             => /\ last'.id \in DOMAIN members
                /\ members' = [members EXCEPT ![last'.id].status = "ARCHIVED"] ]_vars

\* a member that was not ARCHIVED has been deleted while another is stored
C5_Witness ==
    /\ last.op = "DELETE" /\ last.code = OK
    /\ Cardinality(DOMAIN members) = 2
    /\ members[last.id].status = "ARCHIVED"
    /\ members[last.id].expiryDate = 31

\* no two stored members have the same email
UniqueEmails ==
    \A i, j \in DOMAIN members : i # j => members[i].email # members[j].email

\* C6: no two stored members ever have the same email, and a request that
\* is answered with Conflict (409) stores nothing.
C6_EmailUnique ==
    [][ /\ UniqueEmails'
        /\ last'.code = ConflictError => members' = members ]_vars

\* an email change to the email of the other member was refused
C6_Witness ==
    /\ last.op = "PUT" /\ last.code = ConflictError
    /\ Cardinality(DOMAIN members) = 2

\* C7: of two concurrent POST /members requests with the same normalized
\* email, for an email that was not stored before, exactly one is answered
\* 201 and the other 409 under every interleaving; never both succeed and a
\* request that fails is answered 409.
C7_OneWinner ==
    LET e == normalizeEmail(race[1].email)
        stored == \E i \in DOMAIN members \ {race[1].id, race[2].id} :
                     members[i].email = e
        won == {r \in Requests : race[r].code = Created}
    IN  (race # << >> /\ e = normalizeEmail(race[2].email))
        => /\ Cardinality(won) <= 1
           /\ \A r \in Requests :
                race[r].pc = "done" => race[r].code \in {Created, ConflictError}
           /\ ((\A r \in Requests : race[r].pc = "done") /\ ~stored)
                => Cardinality(won) = 1

\* both requests passed the lookup; the second insert was refused
C7_Witness ==
    /\ race # << >>
    /\ race[1].email # race[2].email
    /\ race[1].error = "P2002" /\ race[1].code = ConflictError
    /\ race[2].code = Created

\* C8: every stored payment has paidAt set iff its status is PAID.
C8_PaidAtIffPaid ==
    \A i \in DOMAIN payments :
        payments[i].paidAt # {} <=> payments[i].status = "PAID"

\* C9: PATCH /payments/:id/mark-paid of a payment that is PAID is answered
\* 400 and leaves the payment as it is; of a payment in another status it
\* sets the status to PAID and paidAt to now.
C9_MarkPaid ==
    [][ (last'.op = "PATCH" /\ last'.id \in DOMAIN payments)
        => IF payments[last'.id].status = "PAID"
           THEN last'.code = BadRequestError /\ payments' = payments
           ELSE /\ last'.code = OK
                /\ payments'[last'.id].status = "PAID"
                /\ payments'[last'.id].paidAt = {now} ]_vars

\* a payment that was paid on day 0 is marked paid again on day 1
C9_Witness ==
    /\ last.op = "PATCH" /\ last.code = BadRequestError
    /\ now = 1
    /\ payments[last.id].status = "PAID"
    /\ payments[last.id].paidAt = {0}

\* C10: no request changes a field of a stored workout or removes it, and
\* no request changes the amount, payment type, due date, member or notes
\* of a stored payment.
C10_Immutable ==
    [][ /\ \A i \in DOMAIN workouts :
             i \in DOMAIN workouts' /\ workouts'[i] = workouts[i]
        /\ \A i \in DOMAIN payments \cap DOMAIN payments' :
             /\ payments'[i].amount = payments[i].amount
             /\ payments'[i].paymentType = payments[i].paymentType
             /\ payments'[i].dueDate = payments[i].dueDate
             /\ payments'[i].memberId = payments[i].memberId
             /\ payments'[i].notes = payments[i].notes ]_vars

\* the request answered last is op on the record id, and it succeeded
Did(op, id) == last.op = op /\ last.id = id /\ last.code = OK

\* C10 as amended: a stored workout changes only in a PUT /workouts/:id of
\* it and is removed only by a DELETE /workouts/:id of it; the amount,
\* payment type, due date, member and notes of a stored payment change only
\* in a PUT /payments/:id of it, the notes also in a mark-paid of it.
C10_ChangedByUpdateOnly ==
    [][ /\ \A i \in DOMAIN workouts :
             /\ i \notin DOMAIN workouts' => Did("DELETEW", i)'
             /\ (i \in DOMAIN workouts' /\ workouts'[i] # workouts[i])
                  => Did("PUTW", i)'
        /\ \A i \in DOMAIN payments \cap DOMAIN payments' :
             /\ ( \/ payments'[i].amount # payments[i].amount
                  \/ payments'[i].paymentType # payments[i].paymentType
                  \/ payments'[i].dueDate # payments[i].dueDate
                  \/ payments'[i].memberId # payments[i].memberId )
                  => Did("PUT", i)'
             /\ payments'[i].notes # payments[i].notes
                  => (Did("PUT", i)' \/ Did("PATCH", i)') ]_vars

\* a PUT /payments/:id has written the amount of a paid payment while a
\* workout is stored
C10_Witness ==
    /\ Did("PUT", 1)
    /\ 1 \in DOMAIN payments
    /\ payments[1].amount = 20 /\ payments[1].status = "PAID"
    /\ payments[1].notes = {"cash"}
    /\ workouts # << >>


\* ---- the monthly statistics (SpecMonthly)
MonthlyViewed == view.kind = "monthly-stats"

JoinedIn(year, m) ==
    {i \in DOMAIN members : /\ ExtractYear(members[i].joinDate) = year
                            /\ ExtractMonth(members[i].joinDate) = m}

CheckedInIn(year, m) ==
    {i \in DOMAIN checkIns : /\ ExtractYear(checkIns[i].checkInAt) = year
                             /\ ExtractMonth(checkIns[i].checkInAt) = m}

PaidIn(year, m) ==
    {i \in DOMAIN payments : /\ payments[i].status = "PAID"
                             /\ payments[i].paidAt # {}
                             /\ ExtractYear(Val(payments[i].paidAt)) = year
                             /\ ExtractMonth(Val(payments[i].paidAt)) = m}

\* C11: the monthly statistics are always exactly twelve buckets, January to
\* December in order with monthNumber 1..12, and a month without matching
\* records reports zero for each figure, also when the store is empty
C11_TwelveBuckets ==
    MonthlyViewed =>
        /\ DOMAIN view.data = 1..12
        /\ \A i \in DOMAIN view.data :
              /\ view.data[i].monthNumber = i
              /\ view.data[i].month = monthNames[i]
              /\ JoinedIn(view.year, i) = {} => view.data[i].newMembers = Num(0)
              /\ PaidIn(view.year, i) = {} => view.data[i].revenue = Num(0)
              /\ CheckedInIn(view.year, i) = {} => view.data[i].checkIns = Num(0)

C11_Witness ==
    /\ MonthlyViewed
    /\ members = << >> /\ payments = << >> /\ checkIns = << >>

\* a + b on JavaScript numbers
Plus(a, b) == IF a.t = "number" /\ b.t = "number" THEN Num(a.v + b.v) ELSE NaN

RECURSIVE TotalFrom(_, _)
\* the sum of the figures from position i on
TotalFrom(figures, i) ==
    IF i > Len(figures) THEN Num(0) ELSE Plus(figures[i], TotalFrom(figures, i + 1))

\* C12: over the twelve buckets of a year the new-member counts add up to the
\* number of members whose joinDate is in that year, and the check-in counts
\* add up to the number of check-ins of that year
C12_SumsMatch ==
    MonthlyViewed =>
        LET newMembersOf == [i \in DOMAIN view.data |-> view.data[i].newMembers]
            checkInsOf == [i \in DOMAIN view.data |-> view.data[i].checkIns]
        IN  /\ TotalFrom(newMembersOf, 1) =
                 Num(Cardinality({i \in DOMAIN members :
                                     ExtractYear(members[i].joinDate) = view.year}))
            /\ TotalFrom(checkInsOf, 1) =
                 Num(Cardinality({i \in DOMAIN checkIns :
                                     ExtractYear(checkIns[i].checkInAt) = view.year}))

NotArchived == {i \in DOMAIN members : members[i].status # "ARCHIVED"}

\* the count that a grouped distribution reports for a key, 0 when it has
\* no item for the key
CountFor(data, k) ==
    IF \E it \in data : it.key = k
    THEN (CHOOSE it \in data : it.key = k).count
    ELSE 0

\* C14: every aggregate view leaves ARCHIVED members out: the totals of
\* the overview (totalMembers, newMembersThisMonth), the membership-type
\* distribution, the gender distribution and the age histogram
C14_ArchivedExcluded ==
    /\ view.kind = "overview" =>
          /\ view.data.totalMembers = Cardinality(NotArchived)
          /\ view.data.newMembersThisMonth =
                Cardinality({i \in NotArchived :
                                ExtractYear(members[i].joinDate) = ExtractYear(now)
                                /\ ExtractMonth(members[i].joinDate) = ExtractMonth(now)})
    /\ view.kind = "membership-distribution" =>
          \A t \in {"ONE_MONTH", "THREE_MONTH", "SIX_MONTH", "ONE_YEAR"} :
              CountFor(view.data, t) =
                  Cardinality({i \in NotArchived : members[i].membershipType = t})
    /\ view.kind = "gender-distribution" =>
          \A g \in {"MALE", "FEMALE", "OTHER"} :
              CountFor(view.data, g) =
                  Cardinality({i \in NotArchived : members[i].gender = g})
    /\ view.kind = "age-distribution" =>
          \A r \in DOMAIN view.data :
              view.data[r].count =
                  Cardinality({i \in NotArchived :
                                  /\ members[i].age >= ageRanges[r].min
                                  /\ members[i].age <= ageRanges[r].max})

\* the ages that a label of the histogram stands for
LabelAges(label) ==
    CASE label = "16-25" -> 16..25
      [] label = "26-35" -> 26..35
      [] label = "36-45" -> 36..45
      [] label = "46-55" -> 46..55
      [] label = "56+" -> 56..100

\* C15: the age histogram is exactly the five buckets 16-25, 26-35, 36-45,
\* 46-55 and 56+ in this order, 0 for an empty one; every member that is
\* not ARCHIVED is counted in exactly one bucket, so the counts add up to
\* the number of members that are not ARCHIVED
C15_AgeBuckets ==
    view.kind = "age-distribution" =>
        LET countOf == [r \in DOMAIN view.data |-> Num(view.data[r].count)]
        IN  /\ [r \in DOMAIN view.data |-> view.data[r].range] =
                  <<"16-25", "26-35", "36-45", "46-55", "56+">>
            /\ \A r \in DOMAIN view.data :
                  view.data[r].count =
                      Cardinality({i \in NotArchived :
                                      members[i].age \in LabelAges(view.data[r].range)})
            /\ TotalFrom(countOf, 1) = Num(Cardinality(NotArchived))

C15_Witness ==
    /\ view.kind = "age-distribution"
    /\ \E i, j \in DOMAIN members :
          /\ members[i].age = 26 /\ members[i].status = "ACTIVE"
          /\ members[j].age = 100 /\ members[j].status = "ARCHIVED"
    /\ view.data[2].count = 1
    /\ view.data[5].count = 0

\* ---- the member filters (SpecFilter, SpecList)
\* the status that a value of the status selector selects
SelectedStatus(statusFilter) ==
    CASE statusFilter \in {"active", "Active", "ACTIVE"} -> "ACTIVE"
      [] statusFilter \in {"inactive", "Inactive", "INACTIVE"} -> "INACTIVE"
      [] statusFilter \in {"expiring", "Expiring Soon", "EXPIRING_SOON"} -> "EXPIRING_SOON"
      [] statusFilter \in {"archived", "Archived", "ARCHIVED"} -> "ARCHIVED"
      [] OTHER -> "all"

\* the inclusion test of the filter contract
Included(member, searchTerm, statusFilter, membershipFilter) ==
    /\ \/ searchTerm = << >>
       \/ includes(toLowerCase(member.name), toLowerCase(searchTerm))
       \/ includes(toLowerCase(member.email), toLowerCase(searchTerm))
       \/ includes(toLowerCase(member.phone), toLowerCase(searchTerm))
    /\ IF SelectedStatus(statusFilter) = "all"
       THEN member.status # "ARCHIVED"
       ELSE member.status = SelectedStatus(statusFilter)
    /\ membershipFilter = "all" \/ member.membershipType = membershipFilter

\* C16: the client-side filter keeps a member if and only if the search
\* text is empty or a case-insensitive substring of the name, email or
\* phone, and the status selector is "all" and the member is not ARCHIVED
\* or the status is the selected one, and the membership-type selector is
\* "all" or the member's membership type
C16_FilterContract ==
    ui.page \in {"MemberManagement", "Index"} =>
        filteredMembers(ui) =
            {i \in DOMAIN members :
                Included(members[i], ui.searchTerm, ui.statusFilter,
                         ui.membershipFilter)}

\* the value of a selector that stands for a request parameter
SelectorOf(param, lowered) ==
    IF param = {} THEN "all"
    ELSE IF lowered THEN filterMap(CASE Val(param) = "ACTIVE" -> "Active"
                                     [] Val(param) = "INACTIVE" -> "Inactive"
                                     [] Val(param) = "EXPIRING_SOON" -> "Expiring Soon"
                                     [] Val(param) = "ARCHIVED" -> "Archived")
    ELSE Val(param)

\* C17: for the same members, search text, status selector and
\* membership-type selector ("all" being the absent parameter) GET /members
\* selects exactly the members that the client-side filter keeps, also in
\* the view without filters
C17_ServerClientAgree ==
    view.kind = "members" =>
        {view.data[k] : k \in DOMAIN view.data} =
            {i \in DOMAIN members :
                MatchesManagement(members[i], view.query.search,
                                  SelectorOf(view.query.status, TRUE),
                                  SelectorOf(view.query.membershipType, FALSE))}

\* the six orders of setting the three criteria
Orders ==
    {o \in [1..3 -> {"search", "status", "membership"}] :
        \A a, b \in 1..3 : a # b => o[a] # o[b]}

\* the page state after the criterion c is set
AfterCriterion(u, c, term, newFilter, type) ==
    CASE c = "search" -> AfterSearch(u, term)
      [] c = "status" -> AfterStatus(u, newFilter)
      [] c = "membership" -> AfterMembership(u, type)

\* the members displayed after the three criteria are set in the order o
DisplayedAfter(o, term, newFilter, type) ==
    filteredMembers(
        AfterCriterion(
            AfterCriterion(
                AfterCriterion(ui, o[1], term, newFilter, type),
                o[2], term, newFilter, type),
            o[3], term, newFilter, type))

\* C18: setting the search text, the status filter and the membership-type
\* filter in any of the six orders ends with the same displayed members
C18_OrderIndependent ==
    ui.page \in {"MemberManagement", "Index"} =>
        \A term \in SearchTerms, newFilter \in FilterButtons,
           type \in MembershipFilters :
            \A o1, o2 \in Orders :
                DisplayedAfter(o1, term, newFilter, type) =
                    DisplayedAfter(o2, term, newFilter, type)

\* ---- the error responder (SpecErr)
\* the status of the kind of a CustomError, by its class
KindStatus ==
    [BadRequest |-> 400, Unauthorized |-> 401, Forbidden |-> 403,
     NotFound |-> 404, Conflict |-> 409]

\* C19: the error responder answers every error with success = false and
\* the status of its kind: BadRequest 400, Unauthorized 401, Forbidden 403,
\* NotFound 404, Conflict 409, and 500 for an error without a status code
\* or with one outside 100..599, whatever the message of the error
C19_StatusOfKind ==
    (view.kind = "error-response" /\ view.error.name = "Error") =>
        /\ view.success = FALSE
        /\ \A k \in DOMAIN KindStatus :
              view.error.statusCode = {KindStatus[k]} =>
                  view.statusCode = KindStatus[k]
        /\ ( \/ view.error.statusCode = {}
             \/ \E c \in view.error.statusCode : c < 100 \/ c > 599 )
              => view.statusCode = 500

\* ---- staleness of the status (Spec)
\* C20: no step changes a stored member's status except a successful create,
\* update or delete request on that member; the passage of time alone
\* changes no status, and a member appears only by a create request
C20_NoBackgroundChange ==
    [][ /\ \A i \in DOMAIN members \cap DOMAIN members' :
             members'[i].status # members[i].status
                => /\ last'.op \in {"PUT", "DELETE"}
                   /\ last'.id = i
                   /\ last'.code = OK
                   /\ now' = now
        /\ \A i \in DOMAIN members' \ DOMAIN members :
             last'.op = "POST" /\ last'.id = i /\ last'.code = Created
        /\ now' # now => members' = members ]_vars

\* a member created at day 0 with expiry day 0 is still EXPIRING_SOON at
\* day 1, when its expiry date has passed
C20_Witness ==
    /\ now = 1
    /\ last.op = "TICK"
    /\ \E i \in DOMAIN members :
          /\ members[i].expiryDate < now
          /\ members[i].status = "EXPIRING_SOON"

\* ---- ownership of payments and workouts (SpecOwner)
\* C21: every stored payment and workout belongs to a stored member; a
\* create request for a member id that is not stored is answered NotFound
\* and stores nothing, and no update or delete request leaves a payment or
\* workout with a member that is not stored
C21_OwnerExists ==
    /\ [](/\ \A i \in DOMAIN payments : payments[i].memberId \in DOMAIN members
          /\ \A i \in DOMAIN workouts : workouts[i].memberId \in DOMAIN members)
    /\ [][ /\ DOMAIN members \subseteq DOMAIN members'
           /\ \A i \in DOMAIN payments' \ DOMAIN payments :
                 /\ payments'[i].memberId \in DOMAIN members
                 /\ last'.code = Created
           /\ \A i \in DOMAIN workouts' \ DOMAIN workouts :
                 /\ workouts'[i].memberId \in DOMAIN members
                 /\ last'.code = Created
           /\ (last'.op \in {"POST", "POSTW"} /\ last'.code = NotFoundError)
                 => payments' = payments /\ workouts' = workouts ]_vars

\* a payment and a workout of a deleted member are stored, and the request
\* answered last tried to give the payment to a member that is not stored
C21_Witness ==
    /\ DOMAIN payments # {} /\ DOMAIN workouts # {}
    /\ members[1].status = "ARCHIVED"
    /\ last.op = "PUT" /\ last.code = BadRequestError

\* ---- the auth routes (SpecAuth)
\* the header carries a Bearer token that is signed, not expired and names
\* an active user of the table
GoodBearer(header) ==
    /\ header # {}
    /\ Val(header).scheme = "Bearer "
    /\ Val(header).token.signed
    /\ Val(header).token.exp > now
    /\ Val(header).token.id \in DOMAIN auth.users
    /\ auth.users[Val(header).token.id].isActive

\* C22: GET /auth/me and POST /auth/refresh succeed only for a header
\* 'Bearer <token>' whose token is validly signed, unexpired and names an
\* active user; every other request is answered 401 and gets no token
C22_BearerOnly ==
    [][ view'.kind = "auth" /\ view'.op \in {"me", "refresh"} =>
           IF GoodBearer(view'.request)
           THEN view'.code = OK
           ELSE view'.code = 401 /\ view'.token = {} ]_vars

\* C22 as amended: the same where JWT_SECRET is configured; where it is
\* not, a request with a Bearer header is answered 500 and one without 401,
\* and no token is issued
C22_BearerOnlyWithSecret ==
    [][ view'.kind = "auth" /\ view'.op \in {"me", "refresh"} =>
           /\ view'.code = OK <=> (auth.secret /\ GoodBearer(view'.request))
           /\ view'.token # {} =>
                 view'.op = "refresh" /\ view'.code = OK
           /\ view'.code # OK =>
                 /\ view'.token = {}
                 /\ view'.code =
                       IF auth.secret \/ view'.request = {}
                          \/ Val(view'.request).scheme # "Bearer "
                       THEN 401 ELSE 500 ]_vars

\* a refresh with a good token of a deactivated user has been refused
C22_Witness ==
    /\ view.kind = "auth" /\ view.op = "refresh" /\ view.code = 401
    /\ auth.secret
    /\ view.request # {}
    /\ Val(view.request).scheme = "Bearer "
    /\ Val(view.request).token.signed /\ Val(view.request).token.exp > now
    /\ Val(view.request).token.id \in DOMAIN auth.users

\* C26: a registration that is answered with an error has added no user
C26_RegisterAllOrNothing ==
    [][ (view'.kind = "auth" /\ view'.op = "register" /\ view'.code # Created)
           => auth'.users = auth.users ]_vars

\* C27: a login with an unknown email, of a deactivated user or with a
\* wrong password is answered 401 with one and the same message, and a
\* token is issued only for an active user whose password matches
C27_LoginUniform ==
    [][ (view'.kind = "auth" /\ view'.op = "login" /\ view'.request.password # "") =>
           LET r == view'.request
               good == \E i \in DOMAIN auth.users :
                          /\ auth.users[i].email = normalizeEmail(r.email)
                          /\ auth.users[i].isActive
                          /\ auth.users[i].password = <<"hash", r.password>>
           IN  /\ view'.token # {} => good
               /\ ~good => /\ view'.code = 401
                           /\ view'.message = "Invalid credentials" ]_vars

\* a login with the right password of a deactivated user has been refused
C27_Witness ==
    /\ view.kind = "auth" /\ view.op = "login" /\ view.code = 401
    /\ \E i \in DOMAIN auth.users :
          /\ auth.users[i].email = normalizeEmail(view.request.email)
          /\ ~auth.users[i].isActive
          /\ auth.users[i].password = <<"hash", view.request.password>>

\* ---- the list routes (SpecPages)
\* C23: GET /members with one of the four membership types passes
\* validation and selects exactly the members of that type
C23_TypeFilter ==
    (/\ view.kind = "members"
     /\ view.query.membershipType \in
           {{"ONE_MONTH"}, {"THREE_MONTH"}, {"SIX_MONTH"}, {"ONE_YEAR"}}
     /\ view.query.page = {} /\ view.query.limit = {}
     /\ view.query.search = << >> /\ view.query.status = {})
    => /\ view.code = OK
       /\ {view.data[k] : k \in DOMAIN view.data} =
             {i \in DOMAIN members :
                 members[i].membershipType = Val(view.query.membershipType)}

\* the rows of the table of a list response that match its query
Matching ==
    CASE view.kind = "members" ->
           {i \in DOMAIN members :
               view.query.membershipType # {} =>
                   members[i].membershipType = Val(view.query.membershipType)}
      [] view.kind = "payments" ->
           {i \in DOMAIN payments :
               view.query.memberId # {} => payments[i].memberId = Val(view.query.memberId)}
      [] view.kind = "workouts" ->
           {i \in DOMAIN workouts :
               /\ view.query.workoutType # {} =>
                     workouts[i].workoutType = Val(view.query.workoutType)
               /\ view.query.startDate # {} =>
                     workouts[i].workoutAt >= Val(view.query.startDate)}

\* C24: a list response for a valid page and limit has the total of the
\* matching rows, pages = ceil(total / limit) and on its page the rows at
\* the offsets (page - 1) * limit .. min(page * limit, total) - 1; two
\* responses to the same query for different pages of an unchanged store
\* share no row
C24_Pagination ==
    /\ [](view.kind \in {"members", "payments", "workouts"} /\ view.code = OK =>
            /\ view.total = Cardinality(Matching)
            /\ view.pages * view.limit >= view.total
            /\ (view.pages - 1) * view.limit < view.total \/ view.pages = 0
            /\ LET first == (view.page - 1) * view.limit
                   end == IF view.page * view.limit < view.total
                          THEN view.page * view.limit ELSE view.total
               IN  /\ Len(view.data) = IF end > first THEN end - first ELSE 0
                   /\ \A k \in DOMAIN view.data : view.data[k] \in Matching
                   /\ \A k, l \in DOMAIN view.data : k # l => view.data[k] # view.data[l])
    /\ [][ (/\ view.kind \in {"members", "payments", "workouts"}
            /\ view'.kind = view.kind
            /\ view.code = OK /\ view'.code = OK
            /\ view'.query = [view.query EXCEPT !.page = view'.query.page]
            /\ view'.page # view.page)
           => {view.data[k] : k \in DOMAIN view.data}
                 \cap {view'.data[k] : k \in DOMAIN view'.data} = {} ]_vars

\* ---- the overview card (SpecDash)
\* C25: the expiringSoon count of the overview is the number of stored
\* members whose status is EXPIRING_SOON, which are the members that the
\* 'expiring' status filter selects
C25_ExpiringSoonCount ==
    view.kind = "overview" =>
        view.data.expiringSoon =
            Cardinality({i \in DOMAIN members : members[i].status = "EXPIRING_SOON"})

StoredActivities ==
    {[type |-> "CHECK_IN", id |-> i, timestamp |-> checkIns[i].checkInAt] :
        i \in DOMAIN checkIns}
    \cup {[type |-> "PAYMENT", id |-> i, timestamp |-> payments[i].createdAt] :
             i \in DOMAIN payments}
    \cup {[type |-> "WORKOUT", id |-> i, timestamp |-> workouts[i].workoutAt] :
             i \in DOMAIN workouts}

\* C29: the recent activities for a limit n are min(n, total) distinct
\* stored activities, from newest to oldest, and no stored activity that
\* is left out is newer than one that is returned
C29_MostRecent ==
    (view.kind = "activities" /\ view.code = OK) =>
        LET n == IF view.query.limit = {} THEN 20 ELSE Val(view.query.limit)
            total == Cardinality(StoredActivities)
            returned == {view.data[k] : k \in DOMAIN view.data}
        IN  /\ Len(view.data) = IF n < total THEN n ELSE total
            /\ Cardinality(returned) = Len(view.data)
            /\ returned \subseteq StoredActivities
            /\ \A j, k \in DOMAIN view.data :
                  j < k => view.data[j].timestamp >= view.data[k].timestamp
            /\ \A a \in StoredActivities \ returned, r \in returned :
                  a.timestamp <= r.timestamp

\* with a limit of 1 and two check-ins, the one activity returned is a
\* workout that is newer than every check-in and payment
C29_Witness ==
    /\ view.kind = "activities" /\ view.code = OK /\ view.query.limit = {1}
    /\ Len(checkIns) = 2 /\ Len(payments) = 1
    /\ Len(view.data) = 1 /\ view.data[1].type = "WORKOUT"
    /\ \A i \in DOMAIN checkIns : checkIns[i].checkInAt < view.data[1].timestamp
    /\ \A i \in DOMAIN payments : payments[i].createdAt < view.data[1].timestamp

\* ---- deleting payments (SpecPay)
\* C30: DELETE /payments/:id of a payment that is not PENDING is answered
\* 400 and changes nothing, and no request removes a payment that is not
\* PENDING or that has been paid (paidAt is only ever written together
\* with the status PAID)
C30_PaidNeverRemoved ==
    [][ /\ (last'.op = "DELETE" /\ last'.id \in DOMAIN payments
               /\ payments[last'.id].status # "PENDING")
              => last'.code = BadRequestError /\ payments' = payments
        /\ \A i \in DOMAIN payments :
              (payments[i].status # "PENDING" \/ payments[i].paidAt # {})
                 => i \in DOMAIN payments' ]_vars

====
